---- MODULE Spec2Model ----
(***************************************************************************)
(* A model of the batch grading pipeline of TA_agent:                      *)
(*   src/src/grader_agent/grader.py        GraderAgent, GradingResult      *)
(*   src/src/grader_agent/prompt_builder.py build_dry_run_response         *)
(*   src/src/grader_agent/pdf_processor.py  Submission, PDFProcessor       *)
(*   src/main.py                            run_grading_pipeline           *)
(*                                                                         *)
(* Conventions.                                                            *)
(*  - A JSON / Python value is a tagged record: [t |-> "num", v |-> 70],   *)
(*    [t |-> "str", v |-> <<tokens>>], [t |-> "bool", v |-> TRUE],         *)
(*    [t |-> "none"] (None / JSON null), [t |-> "list", v |-> <<..>>],     *)
(*    [t |-> "dict", f |-> [key |-> value]]; a key a dict does not hold    *)
(*    maps to [t |-> "absent"].                                            *)
(*  - A string is the sequence of its tokens (words and punctuation), so   *)
(*    that formatting and concatenation are computed, not assumed.         *)
(*  - confidence and confidence_threshold are counted in hundredths        *)
(*    (0.7 is 70, 0.95 is 95, the default 0.5 is 50); scores and           *)
(*    percentages are whole numbers.                                       *)
(***************************************************************************)
EXTENDS Integers, Sequences, FiniteSets, TLC

\* ------------------------------------------------------------------ bounds
\* The longest submissions directory listing.
MaxSubs == 3
\* The largest --batch-size.
MaxBatchSize == 2
\* The largest grading.max_retries of settings.yaml.
MaxRetries == 1
\* The longest reply to the connection test, in characters.
MaxContentLen == 3
\* The longest generated file name stem, in characters.
MaxStemLen == 4
\* The largest grading.max_retries of the calls followed attempt by attempt.
MaxBackoffRetries == 3
\* The most PDF files of a run followed to its end.
MaxFairSubs == 2

VARIABLES
    \* the run's inputs and configuration (fixed once chosen)
    dry_run, batch_start, batch_size, confidence_threshold, max_retries,
    paths, directory,
    \* run_grading_pipeline
    pc, submissions, submissions_to_process, i, batch_num, j,
    batch_results, all_results, audit_log, events, reports, uncaught,
    \* grade_submission (one call)
    g_pc, submission, attempt, requests, failures, sleeps, response_data,
    result,
    \* test_connection (the one call of a run)
    connection_reply, connected

cfg_vars ==
    <<dry_run, batch_start, batch_size, confidence_threshold, max_retries,
      paths, directory>>

run_vars ==
    <<pc, submissions, submissions_to_process, i, batch_num, j,
      batch_results, all_results, audit_log, events, reports, uncaught>>

grade_vars ==
    <<g_pc, submission, attempt, requests, failures, sleeps, response_data,
      result>>

conn_vars ==
    <<connection_reply, connected>>

vars ==
    <<cfg_vars, run_vars, grade_vars, conn_vars>>

\* ------------------------------------------------------- values and strings
Absent ==
    [t |-> "absent"]

None ==
    [t |-> "none"]

Num(n) ==
    [t |-> "num", v |-> n]

Str(s) ==
    [t |-> "str", v |-> s]

Bool(b) ==
    [t |-> "bool", v |-> b]

List(l) ==
    [t |-> "list", v |-> l]

\* Mutant: dict.get(key), the default left out.
get_without_default(d, key, default) ==
    IF d.f[key].t = "absent" THEN None ELSE d.f[key]

\* dict.get(key, default): the default only when the key is not there; a key
\* that holds JSON null yields None.
get(d, key, default) ==
    IF d.f[key].t = "absent" THEN default ELSE d.f[key]

\* Python truthiness (bool(v)).
truthy(v) ==
    CASE v.t = "bool" -> v.v
      [] v.t = "num" -> v.v # 0
      [] v.t = "str" -> v.v # <<>>
      [] v.t = "list" -> v.v # <<>>
      [] v.t = "dict" -> TRUE
      [] OTHER -> FALSE

\* type(v).__name__ as it appears in an exception message.
type_name(v) ==
    CASE v.t = "none" -> "'NoneType'"
      [] v.t = "str" -> "'str'"
      [] v.t = "list" -> "'list'"
      [] v.t = "bool" -> "'bool'"
      [] v.t = "num" -> "'float'"
      [] OTHER -> "'dict'"

\* str(v) inside an f-string.
str_of(v) ==
    CASE v.t = "str" -> v.v
      [] v.t = "none" -> <<"None">>
      [] v.t = "bool" -> IF v.v THEN <<"True">> ELSE <<"False">>
      [] v.t = "num" -> <<ToString(v.v)>>
      [] OTHER -> <<"[...]">>

\* f"{x:.2f}" of a number given in hundredths: 95 is "0.95", 100 is "1.00".
fmt_2f(c) ==
    <<ToString(c \div 100), ".", ToString((c % 100) \div 10), ToString(c % 10)>>

\* `word in text.lower()`: the templates below carry these words in lower case.
Mentions(text, word) ==
    \E k \in DOMAIN text : text[k] = word

\* text[k..] holds `part` as a contiguous run of tokens.
Quotes(text, part) ==
    \E k \in 0..(Len(text) - Len(part)) :
        \A m \in 1..Len(part) : text[k + m] = part[m]

\* ----------------------------------------------------------- GradingResult
\* The exception text of `None < 0.7`, `"high" < 0.7`, ...
type_error_text(v) ==
    <<"'<'", "not", "supported", "between", "instances", "of",
      type_name(v), "and", "'float'">>

\* The exception text of `[...].get(...)` on a body that is no JSON object.
attribute_error_text(v) ==
    <<type_name(v), "object", "has", "no", "attribute", "'get'">>

\* Mutant: the error result forgets the message it was given.
create_error_result_drops_message(student_name, error_message) ==
    [student_name |-> Str(student_name),
     total_score |-> Num(0),
     max_possible_score |-> Num(0),
     percentage |-> Num(0),
     letter_grade |-> Str(<<>>),
     feedback |-> Str(<<>>),
     strengths |-> List(<<>>),
     improvements |-> List(<<>>),
     rubric_scores |-> List(<<>>),
     integrity_flag |-> Bool(FALSE),
     integrity_reason |-> Str(<<>>),
     confidence |-> Num(0),
     flagged_for_review |-> TRUE,
     flag_reason |-> <<"Grading", "error", ":">>,
     raw_response |-> [t |-> "dict", f |-> <<>>],
     error |-> None]

\* Mutant: the error result keeps the parse defaults (out of 100, 0.5).
create_error_result_parse_defaults(student_name, error_message) ==
    [student_name |-> Str(student_name),
     total_score |-> Num(0),
     max_possible_score |-> Num(100),
     percentage |-> Num(0),
     letter_grade |-> Str(<<>>),
     feedback |-> Str(<<>>),
     strengths |-> List(<<>>),
     improvements |-> List(<<>>),
     rubric_scores |-> List(<<>>),
     integrity_flag |-> Bool(FALSE),
     integrity_reason |-> Str(<<>>),
     confidence |-> Num(50),
     flagged_for_review |-> TRUE,
     flag_reason |-> <<"Grading", "error", ":">> \o error_message,
     raw_response |-> [t |-> "dict", f |-> <<>>],
     error |-> Str(error_message)]

_create_error_result(student_name, error_message) ==
    [student_name |-> Str(student_name),
     total_score |-> Num(0),
     max_possible_score |-> Num(0),
     percentage |-> Num(0),
     letter_grade |-> Str(<<>>),
     feedback |-> Str(<<>>),
     strengths |-> List(<<>>),
     improvements |-> List(<<>>),
     rubric_scores |-> List(<<>>),
     integrity_flag |-> Bool(FALSE),
     integrity_reason |-> Str(<<>>),
     confidence |-> Num(0),
     flagged_for_review |-> TRUE,
     flag_reason |-> <<"Grading", "error", ":">> \o error_message,
     raw_response |-> [t |-> "dict", f |-> <<>>],
     error |-> Str(error_message)]

\* Mutant: the extraction-failure result is left unflagged.
extraction_failed_result_unflagged(s) ==
    [student_name |-> Str(s.student_name),
     total_score |-> Num(0),
     max_possible_score |-> Num(0),
     percentage |-> Num(0),
     letter_grade |-> Str(<<>>),
     feedback |-> Str(<<>>),
     strengths |-> List(<<>>),
     improvements |-> List(<<>>),
     rubric_scores |-> List(<<>>),
     integrity_flag |-> Bool(FALSE),
     integrity_reason |-> Str(<<>>),
     confidence |-> Num(0),
     flagged_for_review |-> FALSE,
     flag_reason |-> <<>>,
     raw_response |-> [t |-> "dict", f |-> <<>>],
     error |-> s.error_message]

\* Mutant: the extraction-failure result does not carry the error message.
extraction_failed_result_without_error(s) ==
    [student_name |-> Str(s.student_name),
     total_score |-> Num(0),
     max_possible_score |-> Num(0),
     percentage |-> Num(0),
     letter_grade |-> Str(<<>>),
     feedback |-> Str(<<>>),
     strengths |-> List(<<>>),
     improvements |-> List(<<>>),
     rubric_scores |-> List(<<>>),
     integrity_flag |-> Bool(FALSE),
     integrity_reason |-> Str(<<>>),
     confidence |-> Num(0),
     flagged_for_review |-> TRUE,
     flag_reason |-> <<"PDF", "extraction", "failed">>,
     raw_response |-> [t |-> "dict", f |-> <<>>],
     error |-> None]

\* grade_submission, the result built when submission.extraction_success is
\* false: error is the submission's error_message itself, flag_reason its
\* str() after a fixed prefix.
extraction_failed_result(s) ==
    [student_name |-> Str(s.student_name),
     total_score |-> Num(0),
     max_possible_score |-> Num(0),
     percentage |-> Num(0),
     letter_grade |-> Str(<<>>),
     feedback |-> Str(<<>>),
     strengths |-> List(<<>>),
     improvements |-> List(<<>>),
     rubric_scores |-> List(<<>>),
     integrity_flag |-> Bool(FALSE),
     integrity_reason |-> Str(<<>>),
     confidence |-> Num(0),
     flagged_for_review |-> TRUE,
     flag_reason |->
         <<"PDF", "extraction", "failed", ":">> \o str_of(s.error_message),
     raw_response |-> [t |-> "dict", f |-> <<>>],
     error |-> s.error_message]

\* ------------------------------------------------- build_dry_run_response
DryRunScores ==
    List(<<[criterion |-> "Content Quality", max_points |-> 40,
            awarded_points |-> 35],
           [criterion |-> "Organization", max_points |-> 30,
            awarded_points |-> 25],
           [criterion |-> "Writing Quality", max_points |-> 30,
            awarded_points |-> 28]>>)

\* Mutant: the mock response reports a middling confidence.
build_dry_run_response_unsure(student_name) ==
    [t |-> "dict",
     f |-> [student_name |-> Str(student_name),
            rubric_scores |-> DryRunScores,
            total_score |-> Num(88),
            max_possible_score |-> Num(100),
            percentage |-> Num(88),
            letter_grade |-> Str(<<"B+">>),
            feedback |-> Str(<<"[DRY RUN]", "mock", "feedback">>),
            strengths |-> List(<<"[DRY RUN] Mock strength 1",
                                 "[DRY RUN] Mock strength 2">>),
            improvements |-> List(<<"[DRY RUN] Mock improvement 1",
                                    "[DRY RUN] Mock improvement 2">>),
            integrity_flag |-> Bool(FALSE),
            integrity_reason |-> Str(<<>>),
            confidence |-> Num(40)]]

build_dry_run_response(student_name) ==
    [t |-> "dict",
     f |-> [student_name |-> Str(student_name),
            rubric_scores |-> DryRunScores,
            total_score |-> Num(88),
            max_possible_score |-> Num(100),
            percentage |-> Num(88),
            letter_grade |-> Str(<<"B+">>),
            feedback |-> Str(<<"[DRY RUN]", "mock", "feedback">>),
            strengths |-> List(<<"[DRY RUN] Mock strength 1",
                                 "[DRY RUN] Mock strength 2">>),
            improvements |-> List(<<"[DRY RUN] Mock improvement 1",
                                    "[DRY RUN] Mock improvement 2">>),
            integrity_flag |-> Bool(FALSE),
            integrity_reason |-> Str(<<>>),
            confidence |-> Num(95)]]

\* --------------------------------------------------------- _parse_response
\* A value `<` accepts against a float: a number, or a bool (an int in Python).
comparable(v) ==
    v.t \in {"num", "bool"}

\* The value of a comparable confidence, in hundredths.
hundredths(v) ==
    IF v.t = "bool" THEN (IF v.v THEN 100 ELSE 0) ELSE v.v

\* Mutant: the comparison lets the threshold itself count as low.
low_confidence_inclusive(confidence, threshold) ==
    hundredths(confidence) <= threshold

\* `confidence < self.confidence_threshold`
low_confidence(confidence, threshold) ==
    hundredths(confidence) < threshold

\* Mutant: the integrity branch is lost.
triage_without_integrity(confidence, integrity_flag, integrity_reason, threshold) ==
    IF low_confidence(confidence, threshold)
    THEN [flagged_for_review |-> TRUE,
          flag_reason |-> <<"Low", "confidence", "score", ":">>
                          \o fmt_2f(hundredths(confidence))]
    ELSE [flagged_for_review |-> FALSE, flag_reason |-> <<>>]

\* Mutant: the low-confidence reason is worded without the word confidence.
triage_reworded(confidence, integrity_flag, integrity_reason, threshold) ==
    IF low_confidence(confidence, threshold)
    THEN [flagged_for_review |-> TRUE,
          flag_reason |-> <<"Low", "score", ":">>
                          \o fmt_2f(hundredths(confidence))]
    ELSE IF truthy(integrity_flag)
    THEN [flagged_for_review |-> TRUE,
          flag_reason |-> <<"Academic", "integrity", "concern", ":">>
                          \o str_of(integrity_reason)]
    ELSE [flagged_for_review |-> FALSE, flag_reason |-> <<>>]

\* Mutant: the integrity test comes first.
triage_integrity_first(confidence, integrity_flag, integrity_reason, threshold) ==
    IF truthy(integrity_flag)
    THEN [flagged_for_review |-> TRUE,
          flag_reason |-> <<"Academic", "integrity", "concern", ":">>
                          \o str_of(integrity_reason)]
    ELSE IF low_confidence(confidence, threshold)
    THEN [flagged_for_review |-> TRUE,
          flag_reason |-> <<"Low", "confidence", "score", ":">>
                          \o fmt_2f(hundredths(confidence))]
    ELSE [flagged_for_review |-> FALSE, flag_reason |-> <<>>]

\* The if / elif that decides flagged_for_review and flag_reason.
triage(confidence, integrity_flag, integrity_reason, threshold) ==
    IF low_confidence(confidence, threshold)
    THEN [flagged_for_review |-> TRUE,
          flag_reason |-> <<"Low", "confidence", "score", ":">>
                          \o fmt_2f(hundredths(confidence))]
    ELSE IF truthy(integrity_flag)
    THEN [flagged_for_review |-> TRUE,
          flag_reason |-> <<"Academic", "integrity", "concern", ":">>
                          \o str_of(integrity_reason)]
    ELSE [flagged_for_review |-> FALSE, flag_reason |-> <<>>]

FailedToParse ==
    <<"Failed", "to", "parse", "response", ":">>

\* The whole of _parse_response: the try body and its except branch.
\* response_data.get raises AttributeError on a body that is no dict, the
\* comparison raises TypeError on a confidence that is no number; nothing
\* else in the try body can raise (the other fields are copied unread).
_parse_response(data, student_name, threshold) ==
    IF data.t # "dict"
    THEN _create_error_result(student_name,
                              FailedToParse \o attribute_error_text(data))
    ELSE
        LET confidence == get(data, "confidence", Num(50))
            integrity_flag == get(data, "integrity_flag", Bool(FALSE))
            integrity_reason == get(data, "integrity_reason", Str(<<>>))
        IN  IF ~comparable(confidence)
            THEN _create_error_result(student_name,
                     FailedToParse \o type_error_text(confidence))
            ELSE
                LET tri == triage(confidence, integrity_flag,
                                  integrity_reason, threshold)
                IN  [student_name |->
                         get(data, "student_name", Str(student_name)),
                     total_score |-> get(data, "total_score", Num(0)),
                     max_possible_score |->
                         get(data, "max_possible_score", Num(100)),
                     percentage |-> get(data, "percentage", Num(0)),
                     letter_grade |-> get(data, "letter_grade", Str(<<>>)),
                     feedback |-> get(data, "feedback", Str(<<>>)),
                     strengths |-> get(data, "strengths", List(<<>>)),
                     improvements |-> get(data, "improvements", List(<<>>)),
                     rubric_scores |-> get(data, "rubric_scores", List(<<>>)),
                     integrity_flag |-> integrity_flag,
                     integrity_reason |-> integrity_reason,
                     confidence |-> confidence,
                     flagged_for_review |-> tri.flagged_for_review,
                     flag_reason |-> tri.flag_reason,
                     raw_response |-> data,
                     error |-> None]

\* ------------------------------------------------------------ PDFProcessor
Lowers ==
    <<"a", "b", "c", "d", "e", "f", "g", "h", "i", "j", "k", "l", "m",
      "n", "o", "p", "q", "r", "s", "t", "u", "v", "w", "x", "y", "z">>

Uppers ==
    <<"A", "B", "C", "D", "E", "F", "G", "H", "I", "J", "K", "L", "M",
      "N", "O", "P", "Q", "R", "S", "T", "U", "V", "W", "X", "Y", "Z">>

is_alpha(c) ==
    \E k \in 1..26 : c = Lowers[k] \/ c = Uppers[k]

upper(c) ==
    IF \E k \in 1..26 : c = Lowers[k]
    THEN Uppers[CHOOSE k \in 1..26 : c = Lowers[k]]
    ELSE c

lower(c) ==
    IF \E k \in 1..26 : c = Uppers[k]
    THEN Lowers[CHOOSE k \in 1..26 : c = Uppers[k]]
    ELSE c

\* str.title(): a letter that follows a letter is lowered, any other letter
\* is raised; what is no letter stays.
title(name) ==
    [k \in 1..Len(name) |->
        IF k > 1 /\ is_alpha(name[k - 1])
        THEN lower(name[k])
        ELSE upper(name[k])]

\* Mutant: only the underscore is replaced.
replace_separators_underscore_only(name) ==
    [k \in 1..Len(name) |-> IF name[k] = "_" THEN " " ELSE name[k]]

\* name.replace("_", " ").replace("-", " ")
replace_separators(name) ==
    [k \in 1..Len(name) |->
        IF name[k] = "_" \/ name[k] = "-" THEN " " ELSE name[k]]

\* A file is [stem |-> its name without ".pdf", as characters,
\*            content |-> what extract_text_from_pdf meets there].
get_student_name_from_filename(file) ==
    title(replace_separators(file.stem))

EmptyPdfMessage ==
    <<"PDF", "appears", "to", "be", "empty", "or", "contains", "only",
      "images/scans">>

\* process_submission: the text and page count of a readable file, the two
\* failure records otherwise (no text layer; fitz raised e, kept as str(e)).
process_submission(file) ==
    CASE file.content.kind = "text" ->
            [student_name |-> get_student_name_from_filename(file),
             file_path |-> file.stem,
             text_content |-> <<"---", "Page", "1", "---", "essay">>,
             page_count |-> 2,
             extraction_success |-> TRUE,
             error_message |-> None]
      [] file.content.kind = "image_only" ->
            [student_name |-> get_student_name_from_filename(file),
             file_path |-> file.stem,
             text_content |-> <<>>,
             page_count |-> 1,
             extraction_success |-> FALSE,
             error_message |-> Str(EmptyPdfMessage)]
      [] OTHER ->
            [student_name |-> get_student_name_from_filename(file),
             file_path |-> file.stem,
             text_content |-> <<>>,
             page_count |-> 0,
             extraction_success |-> FALSE,
             error_message |-> Str(file.content.e)]

\* The characters of file names, in code-point order.
CodePoints ==
    <<" ", "-", ".", "0", "1", "2", "3", "4", "5", "6", "7", "8", "9",
      "A", "B", "C", "D", "E", "F", "G", "H", "I", "J", "K", "L", "M",
      "N", "O", "P", "Q", "R", "S", "T", "U", "V", "W", "X", "Y", "Z",
      "_",
      "a", "b", "c", "d", "e", "f", "g", "h", "i", "j", "k", "l", "m",
      "n", "o", "p", "q", "r", "s", "t", "u", "v", "w", "x", "y", "z">>

\* ord(c), up to the gaps between the characters above.
ord(c) ==
    CHOOSE k \in DOMAIN CodePoints : CodePoints[k] = c

\* a < b on strings: the first differing character decides, a proper
\* prefix comes first.
RECURSIVE str_less(_, _)
str_less(a, b) ==
    IF b = <<>> THEN FALSE
    ELSE IF a = <<>> THEN TRUE
    ELSE IF Head(a) = Head(b) THEN str_less(Tail(a), Tail(b))
    ELSE ord(Head(a)) < ord(Head(b))

\* pdf_path.name of a file matched by "*.pdf".
filename(file) ==
    file.stem \o <<".", "p", "d", "f">>

\* files[p] comes before files[q] in the sorted list: by name, and equal
\* names stay in the order they had (sorted is stable).
sorts_before(files, p, q) ==
    \/ str_less(filename(files[p]), filename(files[q]))
    \/ /\ ~str_less(filename(files[q]), filename(files[p]))
       /\ p < q

\* Mutant: the listing is taken in the order glob yields it.
sorted_left_as_listed(files) ==
    files

\* sorted(self.submissions_dir.glob("*.pdf")): paths of one directory
\* compare by their names; the k-th is the one k - 1 others come before.
sorted(files) ==
    [k \in DOMAIN files |->
        files[CHOOSE q \in DOMAIN files :
                 Cardinality({p \in DOMAIN files : sorts_before(files, p, q)})
                     = k - 1]]

\* ------------------------------------------------------------------ inputs
\* File names of a submissions directory, in sorted (lexicographic) order.
Stems ==
    <<<<"j", "o", "n", "e", "s">>,
      <<"o", "-", "n", "e", "i", "l">>,
      <<"s", "m", "i", "t", "h">>,
      <<"v", "a", "n", "_", "d", "e", "r", "_", "b", "e", "r", "g">>,
      <<"z", "h", "o", "u">>>>

\* What a PDF may hold: text, pages without a text layer, or a file fitz
\* cannot open (with the exception's text, which may be empty).
Contents ==
    {[kind |-> "text"],
     [kind |-> "image_only"],
     [kind |-> "corrupt", e |-> <<>>],
     [kind |-> "corrupt", e |-> <<"cannot", "open", "broken", "document">>]}

\* The contents the runs over whole directories draw from.
RunContents ==
    {[kind |-> "text"],
     [kind |-> "image_only"],
     [kind |-> "corrupt", e |-> <<>>]}

\* The characters the generated file names are made of.
StemChars ==
    {"a", "B", "_", "-", "2"}

\* Every file name stem of 1..MaxStemLen of those characters.
GeneratedStems ==
    UNION {[1..n -> StemChars] : n \in 1..MaxStemLen}

\* The file names the scans of whole directories draw from.
ScanStems ==
    {<<"v", "a", "n", "_", "d", "e", "r", "_", "b", "e", "r", "g">>,
     <<"v", "a", "n">>,
     <<"v", "a", "n", "-", "a">>,
     <<"Z", "h", "o", "u">>,
     <<"o", "-", "n", "e", "i", "l">>}

\* What glob may yield for a directory: one file of any generated name, or
\* up to MaxSubs files of different names, in any order.
ScanListings ==
    {<<[stem |-> s, content |-> [kind |-> "text"]]>> : s \in GeneratedStems}
    \cup {l \in UNION {[1..n -> [stem : ScanStems, content : RunContents]] :
                          n \in 0..MaxSubs} :
             \A a, b \in DOMAIN l : a # b => l[a].stem # l[b].stem}

\* grading.confidence_threshold of settings.yaml, in hundredths.
Thresholds ==
    {50, 70, 96}

\* A JSON object as the model may return it; `rest` stands for the score,
\* feedback and list fields, present together or absent together.
Body(name, confidence, flag, reason, percentage, letter, rest) ==
    [t |-> "dict",
     f |-> [student_name |-> name,
            rubric_scores |-> IF rest THEN List(<<>>) ELSE Absent,
            total_score |-> IF rest THEN Num(80) ELSE Absent,
            max_possible_score |-> IF rest THEN Num(100) ELSE Absent,
            percentage |-> percentage,
            letter_grade |-> letter,
            feedback |-> IF rest THEN Str(<<"Good", "work">>) ELSE Absent,
            strengths |-> IF rest THEN List(<<"strength 1">>) ELSE Absent,
            improvements |->
                IF rest THEN List(<<"improvement 1">>) ELSE Absent,
            integrity_flag |-> flag,
            integrity_reason |-> reason,
            confidence |-> confidence]]

\* Every decodable body one call of grade_submission is tried on: objects
\* with each field absent, well typed or wrongly typed, and a JSON array.
Responses ==
    {Body(n, c, fl, r, p, l, rest) :
        n \in {Absent, Str(<<"M", "a", "l">>)},
        c \in {Absent, Num(50), Num(69), Num(70), Num(95), None,
               Str(<<"high">>)},
        fl \in {Absent, Bool(TRUE), Bool(FALSE)},
        r \in {Absent, Str(<<"Possible", "plagiarism", "detected">>)},
        p \in {Absent, Num(80), Str(<<"80">>)},
        l \in {Absent, Str(<<"B">>)},
        rest \in BOOLEAN}
    \cup {List(<<>>)}

\* The bodies the runs over whole directories draw from.
RunResponses ==
    {Body(Absent, Num(95), Bool(FALSE), Absent, Num(80), Str(<<"B">>), TRUE),
     Body(Str(<<"M", "a", "l">>), Num(50), Bool(TRUE),
          Str(<<"Possible", "plagiarism", "detected">>), Num(80),
          Str(<<"B">>), TRUE),
     Body(Str(<<"M", "a", "l">>), Num(95), Absent, Absent, Str(<<"80">>),
          Str(<<"B">>), FALSE),
     Body(Absent, None, Absent, Absent, Absent, Absent, FALSE)}

\* str(e) of a json.JSONDecodeError.
JsonErrors ==
    {<<"Expecting", "value">>, <<"Unterminated", "string">>}

\* str(e) of any other exception of the attempt: the request failed, or the
\* reply had no content (json.loads(None) raises TypeError).
OtherErrors ==
    {<<"Connection", "error">>,
     <<"the", "JSON", "object", "must", "be", "str", "not", "NoneType">>}

\* The failures the runs over whole directories draw from.
RunJsonErrors ==
    {<<"Expecting", "value">>}

RunOtherErrors ==
    {<<"Connection", "error">>}

\* -------------------------------------------------------- grade_submission
\* Mutant: the dry-run check comes before the extraction check.
grade_path_dry_run_first(s, dry) ==
    IF dry THEN "dry_run"
    ELSE IF ~s.extraction_success THEN "extraction_failed"
    ELSE "live"

\* The two early returns of grade_submission, in the code's order.
grade_path(s, dry) ==
    IF ~s.extraction_success THEN "extraction_failed"
    ELSE IF dry THEN "dry_run"
    ELSE "live"

\* Mutant: the loop runs one attempt too many.
in_range_one_more(k, retries) ==
    k <= retries + 1

\* `for attempt in range(self.max_retries + 1)`
in_range(k, retries) ==
    k < retries + 1

JsonFailed ==
    <<"Failed", "to", "parse", "API", "response", "as", "JSON", ":">>

ApiFailed ==
    <<"API", "call", "failed", ":">>

\* if not submission.extraction_success: return GradingResult(...)
grade_submission_extraction_failed ==
    /\ g_pc = "entry"
    /\ grade_path(submission, dry_run) = "extraction_failed"
    /\ result' = extraction_failed_result(submission)
    /\ g_pc' = "returned"
    /\ UNCHANGED <<submission, attempt, requests, failures, sleeps,
                   response_data>>
    /\ UNCHANGED <<cfg_vars, run_vars, conn_vars>>

\* if dry_run: return self._parse_response(build_dry_run_response(...), ...)
grade_submission_dry_run ==
    /\ g_pc = "entry"
    /\ grade_path(submission, dry_run) = "dry_run"
    /\ response_data' = build_dry_run_response(submission.student_name)
    /\ result' = _parse_response(response_data', submission.student_name,
                                 confidence_threshold)
    /\ g_pc' = "returned"
    /\ UNCHANGED <<submission, attempt, requests, failures, sleeps>>
    /\ UNCHANGED <<cfg_vars, run_vars, conn_vars>>

\* build_grading_prompt, then the first turn of the retry loop.
grade_submission_build_prompt ==
    /\ g_pc = "entry"
    /\ grade_path(submission, dry_run) = "live"
    /\ g_pc' = "loop"
    /\ attempt' = 0
    /\ UNCHANGED <<submission, requests, failures, sleeps, response_data,
                   result>>
    /\ UNCHANGED <<cfg_vars, run_vars, conn_vars>>

\* The try body of _parse_response raises on this decoded body.
parse_raises(data) ==
    \/ data.t # "dict"
    \/ ~comparable(get(data, "confidence", Num(50)))

\* Mutant: _parse_response lets its exception out, and the retry loop's
\* handler takes it for a failed call.
grade_submission_decoded_retrying(bodies) ==
    /\ g_pc = "loop"
    /\ in_range(attempt, max_retries)
    /\ \E body \in bodies :
        /\ response_data' = body
        /\ IF parse_raises(body) /\ attempt < max_retries
           THEN /\ failures' = Append(failures,
                                      [kind |-> "other", e |-> FailedToParse])
                /\ sleeps' = Append(sleeps, 2 ^ attempt)
                /\ attempt' = attempt + 1
                /\ UNCHANGED <<g_pc, result>>
           ELSE /\ result' = _parse_response(body, submission.student_name,
                                             confidence_threshold)
                /\ g_pc' = "returned"
                /\ UNCHANGED <<attempt, failures, sleeps>>
    /\ requests' = requests + 1
    /\ UNCHANGED submission
    /\ UNCHANGED <<cfg_vars, run_vars, conn_vars>>

\* An attempt whose reply decodes: json.loads succeeds and the call returns
\* what _parse_response makes of the body.
grade_submission_decoded(bodies) ==
    /\ g_pc = "loop"
    /\ in_range(attempt, max_retries)
    /\ \E body \in bodies :
        /\ response_data' = body
        /\ result' = _parse_response(body, submission.student_name,
                                     confidence_threshold)
    /\ requests' = requests + 1
    /\ g_pc' = "returned"
    /\ UNCHANGED <<submission, attempt, failures, sleeps>>
    /\ UNCHANGED <<cfg_vars, run_vars, conn_vars>>

\* except json.JSONDecodeError as e
grade_submission_json_error(errors) ==
    /\ g_pc = "loop"
    /\ in_range(attempt, max_retries)
    /\ \E e \in errors :
        /\ failures' = Append(failures, [kind |-> "json", e |-> e])
        /\ IF attempt = max_retries
           THEN /\ result' = _create_error_result(submission.student_name,
                                                  JsonFailed \o e)
                /\ g_pc' = "returned"
                /\ UNCHANGED <<attempt, sleeps>>
           ELSE /\ sleeps' = Append(sleeps, 1)
                /\ attempt' = attempt + 1
                /\ UNCHANGED <<g_pc, result>>
    /\ requests' = requests + 1
    /\ UNCHANGED <<submission, response_data>>
    /\ UNCHANGED <<cfg_vars, run_vars, conn_vars>>

\* Mutant: the wait is the fixed one of the JSON branch.
backoff_fixed(k) ==
    1

\* time.sleep(2 ** attempt)
backoff(k) ==
    2 ^ k

\* except Exception as e
grade_submission_exception(errors) ==
    /\ g_pc = "loop"
    /\ in_range(attempt, max_retries)
    /\ \E e \in errors :
        /\ failures' = Append(failures, [kind |-> "other", e |-> e])
        /\ IF attempt = max_retries
           THEN /\ result' = _create_error_result(submission.student_name,
                                                  ApiFailed \o e)
                /\ g_pc' = "returned"
                /\ UNCHANGED <<attempt, sleeps>>
           ELSE /\ sleeps' = Append(sleeps, backoff(attempt))
                /\ attempt' = attempt + 1
                /\ UNCHANGED <<g_pc, result>>
    /\ requests' = requests + 1
    /\ UNCHANGED <<submission, response_data>>
    /\ UNCHANGED <<cfg_vars, run_vars, conn_vars>>

\* The for loop ends without a return (an empty range): the function falls
\* off its end and the caller receives None.
grade_submission_fall_through ==
    /\ g_pc = "loop"
    /\ ~in_range(attempt, max_retries)
    /\ result' = None
    /\ g_pc' = "returned"
    /\ UNCHANGED <<submission, attempt, requests, failures, sleeps,
                   response_data>>
    /\ UNCHANGED <<cfg_vars, run_vars, conn_vars>>

\* ---------------------------------------- one call of grade_submission
\* A caller hands one Submission to an agent of any configuration.
InitGrade ==
    /\ dry_run \in BOOLEAN
    /\ confidence_threshold \in Thresholds
    /\ max_retries \in -1..MaxRetries
    /\ batch_start = 0
    /\ batch_size = 1
    /\ paths = "ok"
    /\ \E k \in 1..Len(Stems), c \in Contents :
        directory = <<[stem |-> Stems[k], content |-> c]>>
    /\ submissions = <<process_submission(directory[1])>>
    /\ submissions_to_process = submissions
    /\ pc = "in_grade"
    /\ i = 0
    /\ batch_num = 0
    /\ j = 0
    /\ batch_results = <<>>
    /\ all_results = <<>>
    /\ audit_log = <<>>
    /\ events = <<[op |-> "grade", k |-> 1]>>
    /\ reports = None
    /\ uncaught = None
    /\ g_pc = "entry"
    /\ submission = submissions[1]
    /\ attempt = 0
    /\ requests = 0
    /\ failures = <<>>
    /\ sleeps = <<>>
    /\ response_data = None
    /\ result = None
    /\ connection_reply = None
    /\ connected = None

NextGrade ==
    \/ grade_submission_extraction_failed
    \/ grade_submission_dry_run
    \/ grade_submission_build_prompt
    \/ grade_submission_decoded(Responses)
    \/ grade_submission_json_error(JsonErrors)
    \/ grade_submission_exception(OtherErrors)
    \/ grade_submission_fall_through

SpecGrade ==
    InitGrade /\ [][NextGrade]_vars

\* ------------------------------------- one call, attempt by attempt
\* One live or dry call on one submission, with up to MaxBackoffRetries
\* retries and one failure message of each kind.
InitRetry ==
    /\ dry_run \in BOOLEAN
    /\ confidence_threshold = 70
    /\ max_retries \in -1..MaxBackoffRetries
    /\ batch_start = 0
    /\ batch_size = 1
    /\ paths = "ok"
    /\ \E c \in {[kind |-> "text"], [kind |-> "image_only"]} :
        directory = <<[stem |-> Stems[1], content |-> c]>>
    /\ submissions = <<process_submission(directory[1])>>
    /\ submissions_to_process = submissions
    /\ pc = "in_grade"
    /\ i = 0
    /\ batch_num = 0
    /\ j = 0
    /\ batch_results = <<>>
    /\ all_results = <<>>
    /\ audit_log = <<>>
    /\ events = <<[op |-> "grade", k |-> 1]>>
    /\ reports = None
    /\ uncaught = None
    /\ g_pc = "entry"
    /\ submission = submissions[1]
    /\ attempt = 0
    /\ requests = 0
    /\ failures = <<>>
    /\ sleeps = <<>>
    /\ response_data = None
    /\ result = None
    /\ connection_reply = None
    /\ connected = None

NextRetry ==
    \/ grade_submission_extraction_failed
    \/ grade_submission_dry_run
    \/ grade_submission_build_prompt
    \/ grade_submission_decoded(RunResponses)
    \/ grade_submission_json_error(RunJsonErrors)
    \/ grade_submission_exception(RunOtherErrors)
    \/ grade_submission_fall_through

SpecRetry ==
    InitRetry /\ [][NextRetry]_vars

\* ---------------------------------------------------- run_grading_pipeline
\* Mutant: the slice runs one submission into the next batch.
batch_overlapping ==
    SubSeq(submissions_to_process, i + 1,
           IF i + batch_size + 1 < Len(submissions_to_process)
           THEN i + batch_size + 1
           ELSE Len(submissions_to_process))

\* The batch the outer loop is at: submissions_to_process[i:i + batch_size].
batch ==
    SubSeq(submissions_to_process, i + 1,
           IF i + batch_size < Len(submissions_to_process)
           THEN i + batch_size
           ELSE Len(submissions_to_process))

\* current_num = batch_start + i + j + 1
current_num ==
    batch_start + i + j + 1

\* A value the format specs ".1f" and ".2f" accept.
formattable(v) ==
    v.t \in {"num", "bool"}

\* print_progress raises: result is None (no attribute flagged_for_review),
\* or letter_grade is truthy and percentage is not a number.
print_progress_raises(r) ==
    \/ r = None
    \/ truthy(r.letter_grade) /\ ~formattable(r.percentage)

\* The fields of the GradingResult dataclass.
GradingResultFields ==
    {"student_name", "total_score", "max_possible_score", "percentage",
     "letter_grade", "feedback", "strengths", "improvements",
     "rubric_scores", "integrity_flag", "integrity_reason", "confidence",
     "flagged_for_review", "flag_reason", "raw_response", "error"}

\* The key under which an audit entry holds a field of the result.
audit_key(field) ==
    IF field = "student_name" THEN "student_id" ELSE field

\* The entry write_audit_log appends (its timestamp left out).
audit_entry(r) ==
    [student_id |-> r.student_name,
     total_score |-> r.total_score,
     max_possible_score |-> r.max_possible_score,
     percentage |-> r.percentage,
     letter_grade |-> r.letter_grade,
     rubric_scores |-> r.rubric_scores,
     confidence |-> r.confidence,
     integrity_flag |-> r.integrity_flag,
     flagged_for_review |-> r.flagged_for_review,
     flag_reason |-> r.flag_reason,
     error |-> r.error]

\* write_grades_csv formats every row's percentage and confidence and joins
\* its strengths and improvements.
write_grades_csv_raises(results) ==
    \E k \in DOMAIN results :
        \/ ~formattable(results[k].percentage)
        \/ ~formattable(results[k].confidence)
        \/ results[k].strengths.t # "list"
        \/ results[k].improvements.t # "list"

\* Mutant: the list comprehension has lost its condition.
filter_results_keeps_all(results, flagged_only) ==
    results

\* [r for r in results if cond(r)], kept in order.
RECURSIVE filter_results(_, _)
filter_results(results, flagged_only) ==
    IF results = <<>> THEN <<>>
    ELSE LET r == Head(results)
             keep == IF flagged_only THEN r.flagged_for_review ELSE TRUE
         IN  (IF keep THEN <<r>> ELSE <<>>)
             \o filter_results(Tail(results), flagged_only)

\* One data row of the flagged report: nine columns, the confidence
\* formatted to two decimals and `result.error or ""` in the last.
flagged_row(r) ==
    [student_name |-> r.student_name,
     total_score |-> r.total_score,
     letter_grade |-> r.letter_grade,
     feedback |-> r.feedback,
     flag_reason |-> r.flag_reason,
     integrity_flag |-> r.integrity_flag,
     integrity_reason |-> r.integrity_reason,
     confidence |-> fmt_2f(hundredths(r.confidence)),
     error |-> IF truthy(r.error) THEN r.error ELSE Str(<<>>)]

\* write_flagged_csv: the file is opened only when some result is flagged;
\* `written` tells whether it was, `rows` are its data rows.
write_flagged_csv(results) ==
    LET flagged == filter_results(results, TRUE)
    IN  IF flagged = <<>>
        THEN [written |-> FALSE, rows |-> <<>>]
        ELSE [written |-> TRUE,
              rows |-> [k \in 1..Len(flagged) |-> flagged_row(flagged[k])]]

\* Mutant: the rubric check reports the missing file and carries on.
validate_paths_rubric_unchecked ==
    /\ pc = "validate"
    /\ pc' = IF paths \in {"ok", "no_rubric"} THEN "scan" ELSE "exit_1"
    /\ UNCHANGED <<submissions, submissions_to_process, i, batch_num, j,
                   batch_results, all_results, audit_log, events, reports,
                   uncaught>>
    /\ UNCHANGED <<cfg_vars, grade_vars, conn_vars>>

\* The checks of the three paths; any missing one ends in sys.exit(1).
validate_paths ==
    /\ pc = "validate"
    /\ pc' = IF paths = "ok" THEN "scan" ELSE "exit_1"
    /\ UNCHANGED <<submissions, submissions_to_process, i, batch_num, j,
                   batch_results, all_results, audit_log, events, reports,
                   uncaught>>
    /\ UNCHANGED <<cfg_vars, grade_vars, conn_vars>>

\* Mutant: the offset is ignored and the whole list is processed.
slice_from_the_start(seq, start) ==
    seq

\* seq[start:]
slice_from(seq, start) ==
    SubSeq(seq, start + 1, Len(seq))

\* processor.get_all_submissions() and submissions[batch_start:]; a directory
\* without PDF files raises ValueError, which nothing catches.
get_all_submissions ==
    /\ pc = "scan"
    /\ IF directory = <<>>
       THEN /\ pc' = "raised"
            /\ uncaught' = Str(<<"ValueError", "get_all_submissions">>)
            /\ UNCHANGED <<submissions, submissions_to_process>>
       ELSE /\ submissions' =
                [k \in 1..Len(directory) |->
                    process_submission(sorted(directory)[k])]
            /\ submissions_to_process' =
                slice_from(submissions', batch_start)
            /\ pc' = "connect"
            /\ UNCHANGED uncaught
    /\ UNCHANGED <<i, batch_num, j, batch_results, all_results, audit_log,
                   events, reports>>
    /\ UNCHANGED <<cfg_vars, grade_vars, conn_vars>>

\* The characters a reply to the connection test is made of.
ReplyChars ==
    {"o", "k", "O", "K", "n", " "}

\* What the client may do with the connection test's request: answer with a
\* content of up to MaxContentLen characters, answer with content None or
\* with no choice at all, or raise one of the API's exceptions.
ConnectionReplies ==
    {[kind |-> "content", content |-> c] :
        c \in UNION {[1..n -> ReplyChars] : n \in 0..MaxContentLen}}
    \cup {[kind |-> "no_content"], [kind |-> "no_choices"]}
    \cup {[kind |-> "exception", e |-> x] :
            x \in {"AuthenticationError", "APIConnectionError",
                   "RateLimitError"}}

\* The replies the runs over whole directories draw from.
RunConnectionReplies ==
    {[kind |-> "content", content |-> <<"O", "K">>],
     [kind |-> "content", content |-> <<"n", "o">>],
     [kind |-> "no_content"],
     [kind |-> "exception", e |-> "APIConnectionError"]}

\* str.lower()
lower_str(s) ==
    [k \in 1..Len(s) |-> lower(s[k])]

\* The try body of test_connection: the value it returns, or the exception
\* it raises (None has no lower(), an empty list no element 0).
test_connection_try(reply) ==
    CASE reply.kind = "content" ->
            [raised |-> FALSE,
             value |-> Quotes(lower_str(reply.content), <<"o", "k">>)]
      [] reply.kind = "no_content" ->
            [raised |-> TRUE, exc |-> "AttributeError"]
      [] reply.kind = "no_choices" ->
            [raised |-> TRUE, exc |-> "IndexError"]
      [] OTHER ->
            [raised |-> TRUE, exc |-> reply.e]

\* Mutant: the handler catches the API's own exceptions only.
except_api_errors_only(exc) ==
    exc \in {"AuthenticationError", "APIConnectionError", "RateLimitError"}

\* `except Exception`: every exception class the try body can raise derives
\* from Exception.
except_Exception(exc) ==
    exc \in {"AuthenticationError", "APIConnectionError", "RateLimitError",
             "AttributeError", "IndexError"}

\* GraderAgent.test_connection: what the caller gets, a returned bool or an
\* exception the handler did not catch.
test_connection(reply) ==
    LET body == test_connection_try(reply)
    IN  IF ~body.raised
        THEN [raised |-> FALSE, value |-> Bool(body.value)]
        ELSE IF except_Exception(body.exc)
        THEN [raised |-> FALSE, value |-> Bool(FALSE)]
        ELSE [raised |-> TRUE, exc |-> body.exc]

\* Mutant: the run carries on whatever the connection test returned.
after_test_connection_regardless(returned) ==
    "batch"

\* if grader.test_connection(): ... else: ...; sys.exit(1)
after_test_connection(returned) ==
    IF returned THEN "batch" ELSE "exit_1"

\* `if not dry_run:` the connection test and what follows from it.
connect(replies) ==
    /\ pc = "connect"
    /\ IF dry_run
       THEN /\ pc' = "batch"
            /\ UNCHANGED <<events, uncaught, conn_vars>>
       ELSE \E reply \in replies :
            LET returned == test_connection(reply)
            IN  /\ connection_reply' = reply
                /\ connected' = returned
                /\ events' =
                       Append(events, [op |-> "test_connection", k |-> 0])
                /\ IF returned.raised
                   THEN /\ pc' = "raised"
                        /\ uncaught' = Str(<<returned.exc>>)
                   ELSE /\ pc' = after_test_connection(returned.value.v)
                        /\ UNCHANGED uncaught
    /\ UNCHANGED <<submissions, submissions_to_process, i, batch_num, j,
                   batch_results, all_results, audit_log, reports>>
    /\ UNCHANGED <<cfg_vars, grade_vars>>

\* main(), --test-connection: the connection test alone, exit status 1 when
\* it returns false.
main_test_connection(replies) ==
    /\ pc = "main_test_connection"
    /\ \E reply \in replies :
        LET returned == test_connection(reply)
        IN  /\ connection_reply' = reply
            /\ connected' = returned
            /\ IF returned.raised
               THEN /\ pc' = "raised"
                    /\ uncaught' = Str(<<returned.exc>>)
               ELSE /\ pc' = IF returned.value.v THEN "exit_0" ELSE "exit_1"
                    /\ UNCHANGED uncaught
    /\ UNCHANGED <<submissions, submissions_to_process, i, batch_num, j,
                   batch_results, all_results, audit_log, events, reports>>
    /\ UNCHANGED <<cfg_vars, grade_vars>>

\* Mutant: the delay is also taken before the first batch.
delay_before_batch_always(n) ==
    n >= 0

\* `if batch_num > 0: time.sleep(delay_between_batches)`
delay_before_batch(n) ==
    n > 0

\* The head of the outer for loop: the next batch, after the delay between
\* batches when it is not the first, or the end of the loop.
next_batch ==
    /\ pc = "batch"
    /\ IF i < Len(submissions_to_process)
       THEN /\ events' = IF delay_before_batch(batch_num)
                         THEN Append(events,
                                     [op |-> "batch_delay", k |-> batch_num])
                         ELSE events
            /\ batch_results' = <<>>
            /\ j' = 0
            /\ pc' = "grade"
       ELSE /\ pc' = "report"
            /\ UNCHANGED <<events, batch_results, j>>
    /\ UNCHANGED <<submissions, submissions_to_process, i, batch_num,
                   all_results, audit_log, reports, uncaught>>
    /\ UNCHANGED <<cfg_vars, grade_vars, conn_vars>>

\* The head of the inner for loop: grade_submission is called on batch[j],
\* or the batch is done and all_results.extend(batch_results) runs.
next_submission ==
    /\ pc = "grade"
    /\ IF j < Len(batch)
       THEN /\ submission' = batch[j + 1]
            /\ g_pc' = "entry"
            /\ attempt' = 0
            /\ requests' = 0
            /\ failures' = <<>>
            /\ sleeps' = <<>>
            /\ response_data' = None
            /\ result' = None
            /\ events' = Append(events, [op |-> "grade", k |-> current_num])
            /\ pc' = "in_grade"
            /\ UNCHANGED <<all_results, i, batch_num>>
       ELSE /\ all_results' = all_results \o batch_results
            /\ i' = i + batch_size
            /\ batch_num' = batch_num + 1
            /\ pc' = "batch"
            /\ UNCHANGED <<events, grade_vars>>
    /\ UNCHANGED <<submissions, submissions_to_process, j, batch_results,
                   audit_log, reports, uncaught>>
    /\ UNCHANGED <<cfg_vars, conn_vars>>

\* print_progress(current_num, len(submissions), student_name, result)
print_progress ==
    /\ pc = "in_grade"
    /\ g_pc = "returned"
    /\ IF print_progress_raises(result)
       THEN /\ pc' = "raised"
            /\ uncaught' = Str(<<"print_progress">>)
       ELSE /\ pc' = "audit"
            /\ UNCHANGED uncaught
    /\ g_pc' = "idle"
    /\ UNCHANGED <<submission, attempt, requests, failures, sleeps,
                   response_data, result>>
    /\ UNCHANGED <<submissions, submissions_to_process, i, batch_num, j,
                   batch_results, all_results, audit_log, events, reports>>
    /\ UNCHANGED <<cfg_vars, conn_vars>>

\* Mutant: the record is built but the line is never written.
write_audit_log_unwritten ==
    /\ pc = "audit"
    /\ pc' = "append"
    /\ UNCHANGED <<submissions, submissions_to_process, i, batch_num, j,
                   batch_results, all_results, audit_log, events, reports,
                   uncaught>>
    /\ UNCHANGED <<cfg_vars, grade_vars, conn_vars>>

\* Mutant: the log is opened for writing, not for appending.
write_audit_log_overwrites ==
    /\ pc = "audit"
    /\ audit_log' = <<audit_entry(result)>>
    /\ events' = Append(events, [op |-> "audit", k |-> current_num])
    /\ pc' = "append"
    /\ UNCHANGED <<submissions, submissions_to_process, i, batch_num, j,
                   batch_results, all_results, reports, uncaught>>
    /\ UNCHANGED <<cfg_vars, grade_vars, conn_vars>>

\* write_audit_log(result, audit_log)
write_audit_log ==
    /\ pc = "audit"
    /\ audit_log' = Append(audit_log, audit_entry(result))
    /\ events' = Append(events, [op |-> "audit", k |-> current_num])
    /\ pc' = "append"
    /\ UNCHANGED <<submissions, submissions_to_process, i, batch_num, j,
                   batch_results, all_results, reports, uncaught>>
    /\ UNCHANGED <<cfg_vars, grade_vars, conn_vars>>

\* Mutant: the pause follows the last submission of a batch too.
delay_after_submission_always(n) ==
    ~dry_run

\* `if not dry_run and j < len(batch) - 1: time.sleep(0.5)`
delay_after_submission(n) ==
    ~dry_run /\ n < Len(batch) - 1

\* batch_results.append(result) and the pause that follows every submission
\* of a live run but the last of its batch.
append_result ==
    /\ pc = "append"
    /\ batch_results' = Append(batch_results, result)
    /\ events' = IF delay_after_submission(j)
                 THEN Append(events, [op |-> "pause", k |-> current_num])
                 ELSE events
    /\ j' = j + 1
    /\ pc' = "grade"
    /\ UNCHANGED <<submissions, submissions_to_process, i, batch_num,
                   all_results, audit_log, reports, uncaught>>
    /\ UNCHANGED <<cfg_vars, grade_vars, conn_vars>>

\* [r for r in all_results if not r.error]
successful(results) ==
    SelectSeq(results, LAMBDA r : ~truthy(r.error))

\* [r for r in all_results if r.error]
errors(results) ==
    SelectSeq(results, LAMBDA r : truthy(r.error))

\* float(v) of a percentage that write_grades_csv could format.
number(v) ==
    IF v.t = "bool" THEN (IF v.v THEN 1 ELSE 0) ELSE v.v

\* sum(r.percentage for r in results)
RECURSIVE sum_percentage(_)
sum_percentage(results) ==
    IF results = <<>> THEN 0
    ELSE number(Head(results).percentage) + sum_percentage(Tail(results))

\* `if successful: avg_score = sum(...) / len(successful)`, kept as the
\* fraction sum / len; None when no average is computed.
avg_score(results) ==
    IF successful(results) # <<>>
    THEN [t |-> "fraction",
          sum |-> sum_percentage(successful(results)),
          len |-> Len(successful(results))]
    ELSE None

\* The counts and the average of the summary the run ends with.
summary(results) ==
    [total |-> Len(results),
     successful |-> Len(successful(results)),
     flagged |-> Len(filter_results(results, TRUE)),
     errors |-> Len(errors(results)),
     avg_score |-> avg_score(results)]

\* write_grades_csv, write_flagged_csv and the summary counts.
write_reports ==
    /\ pc = "report"
    /\ IF write_grades_csv_raises(all_results)
       THEN /\ pc' = "raised"
            /\ uncaught' = Str(<<"write_grades_csv">>)
            /\ UNCHANGED reports
       ELSE /\ reports' =
                [grades |-> all_results,
                 flagged |-> write_flagged_csv(all_results),
                 summary |-> summary(all_results)]
            /\ pc' = "done"
            /\ UNCHANGED uncaught
    /\ UNCHANGED <<submissions, submissions_to_process, i, batch_num, j,
                   batch_results, all_results, audit_log, events>>
    /\ UNCHANGED <<cfg_vars, grade_vars, conn_vars>>

\* The directories a run may find: up to MaxSubs files, sorted by name.
Directories ==
    UNION {[1..n -> RunContents] : n \in 0..MaxSubs}

Init ==
    /\ dry_run \in BOOLEAN
    /\ batch_start \in 0..MaxSubs
    /\ batch_size \in 1..MaxBatchSize
    /\ confidence_threshold = 70
    /\ max_retries \in -1..MaxRetries
    /\ paths \in {"ok", "no_assignment_dir", "no_rubric", "no_submissions_dir"}
    /\ \E d \in Directories :
        directory = [k \in 1..Len(d) |-> [stem |-> Stems[k], content |-> d[k]]]
    /\ submissions = <<>>
    /\ submissions_to_process = <<>>
    /\ pc = "validate"
    /\ i = 0
    /\ batch_num = 0
    /\ j = 0
    /\ batch_results = <<>>
    /\ all_results = <<>>
    /\ audit_log = <<>>
    /\ events = <<>>
    /\ reports = None
    /\ uncaught = None
    /\ g_pc = "idle"
    /\ submission = None
    /\ attempt = 0
    /\ requests = 0
    /\ failures = <<>>
    /\ sleeps = <<>>
    /\ response_data = None
    /\ result = None
    /\ connection_reply = None
    /\ connected = None

Next ==
    \/ validate_paths
    \/ get_all_submissions
    \/ connect(RunConnectionReplies)
    \/ next_batch
    \/ next_submission
    \/ grade_submission_extraction_failed
    \/ grade_submission_dry_run
    \/ grade_submission_build_prompt
    \/ grade_submission_decoded(RunResponses)
    \/ grade_submission_json_error(RunJsonErrors)
    \/ grade_submission_exception(RunOtherErrors)
    \/ grade_submission_fall_through
    \/ print_progress
    \/ write_audit_log
    \/ append_result
    \/ write_reports

Spec ==
    Init /\ [][Next]_vars

\* The runs followed to their end: up to MaxFairSubs files with or without
\* text, from the first submission on, with every batch size and every
\* max_retries.
InitFair ==
    /\ dry_run \in BOOLEAN
    /\ batch_start = 0
    /\ batch_size \in 1..MaxBatchSize
    /\ confidence_threshold = 70
    /\ max_retries \in -1..MaxRetries
    /\ paths = "ok"
    /\ \E n \in 0..MaxFairSubs :
        \E d \in [1..n -> {[kind |-> "text"], [kind |-> "image_only"]}] :
            directory = [k \in 1..n |-> [stem |-> Stems[k], content |-> d[k]]]
    /\ submissions = <<>>
    /\ submissions_to_process = <<>>
    /\ pc = "validate"
    /\ i = 0
    /\ batch_num = 0
    /\ j = 0
    /\ batch_results = <<>>
    /\ all_results = <<>>
    /\ audit_log = <<>>
    /\ events = <<>>
    /\ reports = None
    /\ uncaught = None
    /\ g_pc = "idle"
    /\ submission = None
    /\ attempt = 0
    /\ requests = 0
    /\ failures = <<>>
    /\ sleeps = <<>>
    /\ response_data = None
    /\ result = None
    /\ connection_reply = None
    /\ connected = None

\* The replies of those runs: a well-formed one, and one whose percentage
\* is a string.
FairResponses ==
    {Body(Absent, Num(95), Bool(FALSE), Absent, Num(80), Str(<<"B">>), TRUE),
     Body(Str(<<"M", "a", "l">>), Num(95), Absent, Absent, Str(<<"80">>),
          Str(<<"B">>), FALSE)}

NextFair ==
    \/ validate_paths
    \/ get_all_submissions
    \/ connect({[kind |-> "content", content |-> <<"O", "K">>],
                [kind |-> "no_content"]})
    \/ next_batch
    \/ next_submission
    \/ grade_submission_extraction_failed
    \/ grade_submission_dry_run
    \/ grade_submission_build_prompt
    \/ grade_submission_decoded(FairResponses)
    \/ grade_submission_json_error(RunJsonErrors)
    \/ grade_submission_exception(RunOtherErrors)
    \/ grade_submission_fall_through
    \/ print_progress
    \/ write_audit_log
    \/ append_result
    \/ write_reports

\* The run under the scheduling of one Python thread: the statement the
\* program is at is executed, and every model request returns or raises.
FairSpec ==
    InitFair /\ [][NextFair]_vars /\ WF_vars(NextFair)

\* ------------------------------------------------- main --test-connection
\* main() called with --test-connection: an agent is built (its retry and
\* threshold settings play no part in the test) and no directory is read.
InitConnect ==
    /\ dry_run = FALSE
    /\ batch_start = 0
    /\ batch_size = 1
    /\ confidence_threshold = 70
    /\ max_retries = MaxRetries
    /\ paths = "ok"
    /\ directory = <<>>
    /\ submissions = <<>>
    /\ submissions_to_process = <<>>
    /\ pc = "main_test_connection"
    /\ i = 0
    /\ batch_num = 0
    /\ j = 0
    /\ batch_results = <<>>
    /\ all_results = <<>>
    /\ audit_log = <<>>
    /\ events = <<>>
    /\ reports = None
    /\ uncaught = None
    /\ g_pc = "idle"
    /\ submission = None
    /\ attempt = 0
    /\ requests = 0
    /\ failures = <<>>
    /\ sleeps = <<>>
    /\ response_data = None
    /\ result = None
    /\ connection_reply = None
    /\ connected = None

NextConnect ==
    main_test_connection(ConnectionReplies)

SpecConnect ==
    InitConnect /\ [][NextConnect]_vars

\* ------------------------------------------- PDFProcessor.get_all_submissions
\* The scan of a submissions directory alone, on every listing.
InitScan ==
    /\ dry_run = TRUE
    /\ batch_start = 0
    /\ batch_size = 1
    /\ confidence_threshold = 70
    /\ max_retries = MaxRetries
    /\ paths = "ok"
    /\ directory \in ScanListings
    /\ submissions = <<>>
    /\ submissions_to_process = <<>>
    /\ pc = "scan"
    /\ i = 0
    /\ batch_num = 0
    /\ j = 0
    /\ batch_results = <<>>
    /\ all_results = <<>>
    /\ audit_log = <<>>
    /\ events = <<>>
    /\ reports = None
    /\ uncaught = None
    /\ g_pc = "idle"
    /\ submission = None
    /\ attempt = 0
    /\ requests = 0
    /\ failures = <<>>
    /\ sleeps = <<>>
    /\ response_data = None
    /\ result = None
    /\ connection_reply = None
    /\ connected = None

NextScan ==
    get_all_submissions

SpecScan ==
    InitScan /\ [][NextScan]_vars

\* ------------------------------------------------------------- properties
\* The positions of the log of the run's steps that hold a step of one kind.
steps(op) ==
    {p \in DOMAIN events : events[p].op = op}

\* ceil(n / b) for b >= 1.
ceil_div(n, b) ==
    (n + b - 1) \div b

\* The number of grade_submission calls that have returned to the loop.
produced ==
    Cardinality(steps("grade"))
    - (IF pc = "in_grade" /\ g_pc \in {"entry", "loop"} THEN 1 ELSE 0)

\* The for loops of run_grading_pipeline have run to their end.
LoopsDone ==
    pc \in {"report", "done"}

\* grade_submission has returned a GradingResult (not None).
Returned ==
    g_pc = "returned" /\ result # None

\* The call took the retry loop and left it without a decoded body.
Exhausted ==
    /\ Returned
    /\ grade_path(submission, dry_run) = "live"
    /\ response_data = None

\* _parse_response was handed a JSON object and has returned.
ParsedObject ==
    Returned /\ response_data.t = "dict"

\* C1: in every GradingResult grade_submission returns, on every path,
\* flagged_for_review is true whenever error is set, or confidence is below
\* confidence_threshold, or integrity_flag is true.
C1_FlaggedWheneverErrorLowConfidenceOrIntegrity ==
    Returned =>
        ((\/ result.error # None
          \/ /\ result.confidence.t = "num"
             /\ result.confidence.v < confidence_threshold
          \/ result.integrity_flag = Bool(TRUE))
         => result.flagged_for_review)

\* C1 witness: a live response with integrity_flag true and a confidence at
\* or above the threshold has come back flagged.
C1_Witness ==
    /\ ParsedObject
    /\ requests > 0
    /\ result.integrity_flag = Bool(TRUE)
    /\ result.confidence.v >= confidence_threshold
    /\ result.error = None
    /\ result.flagged_for_review

C3_LowConfidenceFlagged ==
    (/\ ParsedObject
     /\ response_data.f.confidence.t = "num"
     /\ response_data.f.confidence.v < confidence_threshold) =>
        /\ result.flagged_for_review
        /\ Mentions(result.flag_reason, "confidence")

\* C3 witness: a low confidence next to a true integrity_flag, a wrongly
\* typed percentage and a foreign student name.
C3_Witness ==
    /\ ParsedObject
    /\ response_data.f.confidence = Num(69)
    /\ confidence_threshold = 70
    /\ response_data.f.integrity_flag = Bool(TRUE)
    /\ response_data.f.percentage.t = "str"
    /\ response_data.f.student_name # Absent
    /\ result.flagged_for_review

\* C4: the comparison is strict: a confidence equal to the threshold with a
\* false (or absent) integrity_flag is not flagged and has an empty
\* flag_reason; a confidence one hundredth below the threshold is flagged.
C4_StrictComparison ==
    (ParsedObject /\ response_data.f.confidence.t = "num") =>
        /\ (/\ response_data.f.confidence.v = confidence_threshold
            /\ ~truthy(get(response_data, "integrity_flag", Bool(FALSE))))
               => /\ ~result.flagged_for_review
                  /\ result.flag_reason = <<>>
        /\ response_data.f.confidence.v = confidence_threshold - 1
               => result.flagged_for_review

\* C4 witness: 0.70 against the threshold 0.7, not flagged.
C4_Witness ==
    /\ ParsedObject
    /\ confidence_threshold = 70
    /\ response_data.f.confidence = Num(70)
    /\ response_data.f.integrity_flag = Bool(FALSE)
    /\ ~result.flagged_for_review

\* C5: for every Submission with extraction_success false the result is
\* flagged, has total_score 0, has error equal to the submission's
\* error_message and a flag_reason that quotes that message.
C5_ExtractionFailureResult ==
    (Returned /\ ~submission.extraction_success) =>
        /\ result.flagged_for_review
        /\ result.total_score = Num(0)
        /\ result.error = submission.error_message
        /\ Quotes(result.flag_reason, submission.error_message.v)
        /\ Quotes(result.flag_reason, <<"PDF", "extraction", "failed">>)

\* C5 witness: a file fitz could not open, with its exception text.
C5_Witness ==
    /\ Returned
    /\ ~submission.extraction_success
    /\ submission.error_message.v = <<"cannot", "open", "broken", "document">>
    /\ result.error = submission.error_message

\* C6: a Submission with extraction_success false gets the error result
\* with no model request and no mock values, in a dry run as in a live one;
\* in a dry run every extractable submission gets the fixed mock (88.0, B+)
\* and every other one an error result.
C6_ExtractionFailureBeforeDryRun ==
    /\ (g_pc = "returned" /\ ~submission.extraction_success) =>
           /\ requests = 0
           /\ response_data = None
           /\ result.error = submission.error_message
           /\ result.flagged_for_review
           /\ result.percentage = Num(0)
           /\ result.letter_grade = Str(<<>>)
    /\ dry_run =>
           \A k \in DOMAIN all_results :
               IF submissions_to_process[k].extraction_success
               THEN /\ all_results[k].percentage = Num(88)
                    /\ all_results[k].letter_grade = Str(<<"B+">>)
                    /\ all_results[k].error = None
               ELSE /\ all_results[k].error =
                           submissions_to_process[k].error_message
                    /\ all_results[k].flagged_for_review
                    /\ all_results[k].percentage = Num(0)
                    /\ all_results[k].letter_grade = Str(<<>>)

\* C6 witness: a finished dry run over an image-only and an extractable
\* file, with one error result and one mock result.
C6_Witness ==
    /\ dry_run
    /\ pc = "done"
    /\ Len(all_results) = 2
    /\ \E a, b \in DOMAIN all_results :
        /\ submissions_to_process[a].error_message = Str(EmptyPdfMessage)
        /\ all_results[a].error = Str(EmptyPdfMessage)
        /\ submissions_to_process[b].extraction_success
        /\ all_results[b].letter_grade = Str(<<"B+">>)

\* C7 as stated: in a dry run every extracted Submission gets, without a
\* model request, confidence 0.95, flagged_for_review false and no error,
\* whatever the confidence_threshold.
C7_DryRunNeverFlagged ==
    (g_pc = "returned" /\ dry_run /\ submission.extraction_success) =>
        /\ requests = 0
        /\ result.confidence = Num(95)
        /\ ~result.flagged_for_review
        /\ result.error = None

\* C7 amended: in a dry run every extracted Submission gets, without a
\* model request, confidence 0.95 and no error; flagged_for_review is false
\* when confidence_threshold <= 0.95 and true, with the low-confidence
\* reason, when confidence_threshold > 0.95.
C7_DryRunFlaggedOnlyAboveMockConfidence ==
    (g_pc = "returned" /\ dry_run /\ submission.extraction_success) =>
        /\ requests = 0
        /\ result.confidence = Num(95)
        /\ result.error = None
        /\ result.flagged_for_review <=> (confidence_threshold > 95)
        /\ result.flagged_for_review
               => Mentions(result.flag_reason, "confidence")

\* C7 witness: a dry-run result under the threshold 0.7, not flagged.
C7_Witness ==
    /\ g_pc = "returned"
    /\ dry_run
    /\ submission.extraction_success
    /\ confidence_threshold = 70
    /\ ~result.flagged_for_review
    /\ result.student_name = Str(submission.student_name)

\* C8: a live call issues at most max_retries + 1 requests; every request
\* is a failed attempt of either kind or the one decoded reply, after which
\* the call has returned; a call that returns with no decoded reply has
\* issued exactly max_retries + 1 requests, all failed.
C8_AttemptBudget ==
    /\ requests <= (IF max_retries >= 0 THEN max_retries + 1 ELSE 0)
    /\ (g_pc # "idle" /\ grade_path(submission, dry_run) = "live") =>
           /\ requests = Len(failures)
                         + (IF response_data = None THEN 0 ELSE 1)
           /\ response_data # None => g_pc = "returned"
           /\ (g_pc = "returned" /\ response_data = None /\ max_retries >= 0)
                  => /\ requests = max_retries + 1
                     /\ Len(failures) = max_retries + 1
    /\ (g_pc # "idle" /\ grade_path(submission, dry_run) # "live") =>
           requests = 0

\* C8 witness: a call that failed once with malformed JSON and once with
\* another exception and has returned after max_retries + 1 = 2 requests.
C8_Witness ==
    /\ Exhausted
    /\ max_retries = 1
    /\ requests = 2
    /\ \E a, b \in DOMAIN failures :
        failures[a].kind = "json" /\ failures[b].kind = "other"

\* C9: when every attempt of a live call failed, the result is a flagged
\* error result whose error is the message of the last attempt, behind the
\* prefix of that attempt's kind of failure.
C9_LastErrorReported ==
    (Exhausted /\ failures # <<>>) =>
        LET last == failures[Len(failures)]
        IN  /\ result.flagged_for_review
            /\ result.error =
                   Str((IF last.kind = "json" THEN JsonFailed ELSE ApiFailed)
                       \o last.e)

\* C9 witness: two failed attempts of different kinds, the second one's
\* message in the result.
C9_Witness ==
    /\ Exhausted
    /\ Len(failures) = 2
    /\ failures[1].kind = "other"
    /\ failures[2].kind = "json"
    /\ Quotes(result.error.v, failures[2].e)
    /\ ~Quotes(result.error.v, failures[1].e)

\* C10: once the input checks and the connection test have passed, no
\* outcome of grading one submission (here with max_retries >= 0, so that
\* every call returns a GradingResult) aborts run_grading_pipeline while
\* later submissions wait to be graded and logged.
C10_NoGradingOutcomeAbortsRun ==
    max_retries >= 0 =>
        ~(/\ pc = "raised"
          /\ uncaught = Str(<<"print_progress">>)
          /\ current_num < Len(submissions))

\* C11: for every Submission and every configuration, every max_retries
\* included, one call of grade_submission returns exactly one GradingResult,
\* built by exactly one of its three paths (the extraction-failure return
\* without a request or a mock, the dry-run mock without a request, the live
\* call after at least one request); it never finishes without a result.
C11_AlwaysReturnsOneResult ==
    g_pc = "returned" =>
        /\ result # None
        /\ CASE grade_path(submission, dry_run) = "extraction_failed" ->
                    requests = 0 /\ response_data = None
             [] grade_path(submission, dry_run) = "dry_run" ->
                    requests = 0 /\ response_data # None
             [] OTHER ->
                    requests >= 1

\* C12: in a run over n >= 1 submissions with batch size b the delay between
\* batches is taken exactly ceil(n / b) - 1 times; each delay comes right
\* after the audit record of the last submission of a batch and right before
\* the grading of the first submission of the next batch, never before the
\* first batch and never after the last.
C12_InterBatchDelays ==
    LET n == Len(submissions_to_process)
    IN  /\ \A p \in steps("batch_delay") :
               LET last == batch_start + events[p].k * batch_size
               IN  /\ events[p].k \in 1..(ceil_div(n, batch_size) - 1)
                   /\ p > 1
                   /\ events[p - 1] = [op |-> "audit", k |-> last]
                   /\ p < Len(events) =>
                          events[p + 1] = [op |-> "grade", k |-> last + 1]
                   /\ \A q \in steps("batch_delay") :
                          events[q].k = events[p].k => q = p
        /\ (LoopsDone /\ n >= 1) =>
               /\ Cardinality(steps("batch_delay"))
                      = ceil_div(n, batch_size) - 1
               /\ events[Len(events)].op # "batch_delay"

\* C12 witness: a finished run over three submissions in batches of two and
\* one, the single delay between the second and the third submission.
C12_Witness ==
    /\ pc = "done"
    /\ Len(submissions_to_process) = 3
    /\ batch_size = 2
    /\ Cardinality(steps("batch_delay")) = 1
    /\ \E p \in steps("batch_delay") :
           /\ events[p - 1] = [op |-> "audit", k |-> 2]
           /\ events[p + 1] = [op |-> "grade", k |-> 3]

\* C13: the audit record of a submission is appended after grade_submission
\* has returned for it, before the grading of the next submission starts and
\* before any pause or delay that follows it; so at every moment the results
\* produced exceed the audit records written by at most one.
C13_AuditBeforeNextGrading ==
    /\ Len(audit_log) = Cardinality(steps("audit"))
    /\ produced - Len(audit_log) \in {0, 1}
    /\ \A p \in steps("audit") :
           p > 1 /\ events[p - 1] = [op |-> "grade", k |-> events[p].k]
    /\ \A p \in steps("grade") :
           Cardinality({q \in steps("audit") : q < p})
               = Cardinality({q \in steps("grade") : q < p})
    /\ \A p \in steps("pause") \cup steps("batch_delay") :
           p > 1 /\ events[p - 1].op = "audit"
    /\ pc = "append" =>
           /\ audit_log # <<>>
           /\ audit_log[Len(audit_log)] = audit_entry(result)

\* C13 witness: the second result of a live run has come back and its audit
\* record is not yet written, the first one's is, and a pause lies between.
C13_Witness ==
    /\ ~dry_run
    /\ pc = "audit"
    /\ produced = 2
    /\ Len(audit_log) = 1
    /\ steps("pause") # {}

\* C14: when a run completes, the audit log holds exactly one record per
\* submission processed, max(0, n - offset) records for n discovered
\* submissions and resume offset `offset`, in processing order, which is the
\* order of submissions[offset:].
C14_AuditLogOnePerSubmissionInOrder ==
    LET n == Len(submissions)
        expected == IF n - batch_start > 0 THEN n - batch_start ELSE 0
    IN  /\ \A p \in steps("audit") :
               events[p].k
                   = batch_start + Cardinality({q \in steps("audit") : q <= p})
        /\ pc \in {"in_grade", "audit", "append"} =>
               /\ current_num \in DOMAIN submissions
               /\ submission = submissions[current_num]
               /\ submission = submissions_to_process[i + j + 1]
        /\ pc = "append" => Len(audit_log) = i + j + 1
        /\ LoopsDone =>
               /\ Len(audit_log) = expected
               /\ Len(all_results) = expected
               /\ \A k \in DOMAIN audit_log :
                      /\ audit_log[k] = audit_entry(all_results[k])
                      /\ ~submissions[batch_start + k].extraction_success =>
                             audit_log[k].error
                                 = submissions[batch_start + k].error_message
                      /\ (dry_run \/ audit_log[k].error # None) =>
                             audit_log[k].student_id
                                 = Str(submissions[batch_start + k].student_name)

\* C14 witness: a run resumed at offset 1 over three submissions has
\* completed with two records, the second file's before the third's.
C14_Witness ==
    /\ pc = "done"
    /\ batch_start = 1
    /\ Len(submissions) = 3
    /\ Len(audit_log) = 2
    /\ audit_log[1].student_id = Str(submissions[2].student_name)
    /\ audit_log[2].student_id = Str(submissions[3].student_name)

\* C14 witness of the empty case: an offset beyond the last submission.
C14_WitnessOffsetBeyondEnd ==
    /\ pc = "done"
    /\ batch_start > Len(submissions)
    /\ audit_log = <<>>

\* C15: each audit record write_audit_log writes holds every field of the
\* GradingResult except raw_response, with the result's value: no other
\* field of the result is left out of the record.
C15_AuditRecordHoldsEveryFieldButRawResponse ==
    \A k \in DOMAIN audit_log :
        /\ audit_key("raw_response") \notin DOMAIN audit_log[k]
        /\ \A field \in GradingResultFields \ {"raw_response"} :
               audit_key(field) \in DOMAIN audit_log[k]

\* C16: write_flagged_csv emits exactly the results with flagged_for_review
\* true, one row each, in the order they have in the list it is given, and
\* writes no file at all when no result is flagged.
C16_FlaggedReportIsTheFlaggedSubsequence ==
    reports # None =>
        LET F == {k \in DOMAIN all_results : all_results[k].flagged_for_review}
            nth(m) == CHOOSE k \in F : Cardinality({x \in F : x < k}) = m - 1
            rows == reports.flagged.rows
        IN  /\ reports.flagged.written <=> F # {}
            /\ Len(rows) = Cardinality(F)
            /\ \A m \in DOMAIN rows :
                   /\ rows[m].student_name = all_results[nth(m)].student_name
                   /\ rows[m].flag_reason = all_results[nth(m)].flag_reason
                   /\ rows[m].total_score = all_results[nth(m)].total_score
                   /\ rows[m].integrity_reason
                          = all_results[nth(m)].integrity_reason

\* C16 witness: of three results the first and the third are flagged and
\* the second is not; the report holds those two, in that order.
C16_Witness ==
    /\ reports # None
    /\ Len(all_results) = 3
    /\ all_results[1].flagged_for_review
    /\ ~all_results[2].flagged_for_review
    /\ all_results[3].flagged_for_review
    /\ reports.flagged.written
    /\ Len(reports.flagged.rows) = 2
    /\ reports.flagged.rows[2].student_name = all_results[3].student_name

\* C16 witness of the empty case: results, none flagged, and no file.
C16_WitnessNoFile ==
    /\ reports # None
    /\ all_results # <<>>
    /\ ~reports.flagged.written

\* C17: a run started with resume offset k (0 <= k <= n) grades exactly the
\* submissions at positions k..n-1 of the sorted list, in that order; no
\* request is issued and no audit record or result is produced for a
\* submission at a position below k.
C17_ResumeGradesExactlyTheTail ==
    LET n == Len(submissions)
        graded == steps("grade")
    IN  /\ \A p \in graded \cup steps("audit") :
               events[p].k > batch_start /\ events[p].k <= n
        /\ \A p \in graded :
               events[p].k
                   = batch_start + Cardinality({q \in graded : q <= p})
        /\ pc \in {"in_grade", "audit", "append"} =>
               /\ current_num \in (batch_start + 1)..n
               /\ submission = submissions[current_num]
        /\ requests > 0 =>
               \E k \in (batch_start + 1)..n : submission = submissions[k]
        /\ Len(all_results) <= Len(audit_log)
        /\ \A k \in DOMAIN all_results :
               audit_log[k] = audit_entry(all_results[k])
        /\ Len(audit_log) = Cardinality(steps("audit"))
        /\ (LoopsDone /\ batch_start <= n) =>
               /\ {events[p].k : p \in graded} = (batch_start + 1)..n
               /\ Len(all_results) = n - batch_start

\* C17 witness: a live run resumed at offset 2 over three submissions has
\* graded the third one alone, with a request, and has completed.
C17_Witness ==
    /\ pc = "done"
    /\ ~dry_run
    /\ batch_start = 2
    /\ Len(submissions) = 3
    /\ {events[p].k : p \in steps("grade")} = {3}
    /\ requests > 0
    /\ Len(audit_log) = 1

\* C18: a fatal input error (a missing rubric image, a missing submissions
\* directory, a submissions directory without PDF files) aborts the run
\* before any grading: no grade_submission call, no request to the model
\* (the connection test included) and no audit record occurs in the run.
C18_FatalInputErrorsAbortBeforeGrading ==
    (paths # "ok" \/ directory = <<>>) =>
        /\ pc \in {"validate", "scan", "exit_1", "raised"}
        /\ paths # "ok" => pc \in {"validate", "exit_1"}
        /\ events = <<>>
        /\ g_pc = "idle"
        /\ requests = 0
        /\ audit_log = <<>>
        /\ all_results = <<>>
        /\ reports = None

\* C18 witness: a live run on a directory without PDF files has ended in
\* the ValueError of get_all_submissions.
C18_Witness ==
    /\ ~dry_run
    /\ paths = "ok"
    /\ directory = <<>>
    /\ pc = "raised"
    /\ uncaught = Str(<<"ValueError", "get_all_submissions">>)

\* C18 witness of the exit: the rubric image is missing, files are there.
C18_WitnessMissingRubric ==
    /\ paths = "no_rubric"
    /\ directory # <<>>
    /\ pc = "exit_1"

\* C19: in a live run no grading request is issued unless test_connection
\* has first returned true; a failed connection test ends the run with exit
\* status 1 before any submission is graded or logged; in a dry run the
\* connection test is not invoked at all.
C19_ConnectionTestGatesLiveRuns ==
    /\ dry_run =>
           /\ connected = None
           /\ connection_reply = None
           /\ steps("test_connection") = {}
    /\ (~dry_run /\ (steps("grade") # {} \/ requests > 0
                      \/ audit_log # <<>> \/ g_pc # "idle")) =>
           /\ connected = [raised |-> FALSE, value |-> Bool(TRUE)]
           /\ steps("test_connection") = {1}
    /\ (~dry_run /\ connected # None
            /\ connected # [raised |-> FALSE, value |-> Bool(TRUE)]) =>
           /\ pc = "exit_1"
           /\ steps("grade") = {}
           /\ requests = 0
           /\ audit_log = <<>>
           /\ all_results = <<>>
           /\ reports = None

\* C19 witness: a live run over a readable directory whose connection test
\* met an API exception has ended with exit status 1, nothing graded.
C19_Witness ==
    /\ ~dry_run
    /\ directory # <<>>
    /\ batch_start < Len(submissions)
    /\ connection_reply = [kind |-> "exception", e |-> "APIConnectionError"]
    /\ connected = [raised |-> FALSE, value |-> Bool(FALSE)]
    /\ pc = "exit_1"
    /\ events = <<[op |-> "test_connection", k |-> 0]>>

\* C19 witness of the passing test: a request was issued after it.
C19_WitnessConnected ==
    /\ ~dry_run
    /\ connected = [raised |-> FALSE, value |-> Bool(TRUE)]
    /\ requests > 0

\* C20: test_connection never raises to its caller: whatever the client
\* does (any content, empty content, no content, any exception) it returns
\* a boolean, and it returns false whenever the client raised.
C20_TestConnectionNeverRaises ==
    connection_reply # None =>
        /\ ~connected.raised
        /\ connected.value \in {Bool(TRUE), Bool(FALSE)}
        /\ uncaught = None
        /\ pc # "raised"
        /\ connection_reply.kind # "content" => connected.value = Bool(FALSE)
        /\ connection_reply = [kind |-> "content", content |-> <<>>] =>
               connected.value = Bool(FALSE)

\* C20 witness: the client raised and the caller got false.
C20_Witness ==
    /\ pc = "exit_1"
    /\ connection_reply = [kind |-> "exception", e |-> "AuthenticationError"]
    /\ connected = [raised |-> FALSE, value |-> Bool(FALSE)]

\* C20 witness of a reply without content: the AttributeError is caught.
C20_WitnessNoContent ==
    /\ pc = "exit_1"
    /\ connection_reply = [kind |-> "no_content"]
    /\ connected = [raised |-> FALSE, value |-> Bool(FALSE)]

\* C21: for every file name whose stem holds '_' or '-' separators the
\* student name is the stem with every separator replaced by a space and
\* each word title-cased (a letter is upper case exactly when no letter
\* precedes it); no separator character remains in the name.
C21_SeparatorsBecomeSpacesWordsTitleCased ==
    \A n \in DOMAIN submissions :
        LET stem == submissions[n].file_path
            name == submissions[n].student_name
        IN  (\E p \in DOMAIN stem : stem[p] \in {"_", "-"}) =>
                /\ Len(name) = Len(stem)
                /\ \A p \in DOMAIN stem :
                       /\ name[p] \notin {"_", "-"}
                       /\ stem[p] \in {"_", "-"} => name[p] = " "
                       /\ stem[p] \notin {"_", "-"} =>
                              lower(name[p]) = lower(stem[p])
                       /\ is_alpha(name[p]) =>
                              IF p > 1 /\ is_alpha(name[p - 1])
                              THEN name[p] = lower(name[p])
                              ELSE name[p] = upper(name[p])

\* C21 witness: van_der_berg.pdf has given 'Van Der Berg'.
C21_Witness ==
    \E n \in DOMAIN submissions :
        /\ submissions[n].file_path
               = <<"v", "a", "n", "_", "d", "e", "r", "_", "b", "e", "r", "g">>
        /\ submissions[n].student_name
               = <<"V", "a", "n", " ", "D", "e", "r", " ",
                   "B", "e", "r", "g">>

\* C21 witness of mixed separators and case: a-B_ has given 'A B '.
C21_WitnessMixed ==
    /\ submissions # <<>>
    /\ submissions[1].file_path = <<"a", "-", "B", "_">>
    /\ submissions[1].student_name = <<"A", " ", "B", " ">>

\* C22: get_all_submissions returns exactly one Submission per PDF file of
\* the directory, ordered by file name; a file whose extraction fails or
\* yields no text still has its record (extraction_success false, an
\* error_message, empty text) at its sorted place and does not stop the
\* scan; the sequence depends on the directory alone, not on the order in
\* which its files are listed, so two scans of it agree.
C22_OneSubmissionPerFileSorted ==
    pc = "connect" =>
        /\ Len(submissions) = Len(directory)
        /\ \A d \in DOMAIN directory :
               \E n \in DOMAIN submissions :
                   /\ submissions[n].file_path = directory[d].stem
                   /\ \A q \in DOMAIN submissions :
                          submissions[q].file_path = directory[d].stem
                              => q = n
                   /\ submissions[n].extraction_success
                          <=> directory[d].content.kind = "text"
                   /\ directory[d].content.kind # "text" =>
                          /\ submissions[n].error_message.t = "str"
                          /\ submissions[n].text_content = <<>>
                   /\ directory[d].content.kind = "text" =>
                          /\ submissions[n].error_message = None
                          /\ submissions[n].text_content # <<>>
        /\ \A n \in 1..(Len(submissions) - 1) :
               str_less(submissions[n].file_path \o <<".", "p", "d", "f">>,
                        submissions[n + 1].file_path
                            \o <<".", "p", "d", "f">>)

\* C22 witness: a listing of three files out of order, an unreadable one
\* among them, has been returned sorted, upper case before lower case and
\* van-a.pdf before van.pdf, with the failed file's record in its place.
C22_Witness ==
    /\ pc = "connect"
    /\ Len(directory) = 3
    /\ directory[1].stem = <<"v", "a", "n">>
    /\ directory[2] = [stem |-> <<"Z", "h", "o", "u">>,
                       content |-> [kind |-> "text"]]
    /\ directory[3] = [stem |-> <<"v", "a", "n", "-", "a">>,
                       content |-> [kind |-> "image_only"]]
    /\ submissions[1].file_path = <<"Z", "h", "o", "u">>
    /\ submissions[2].file_path = <<"v", "a", "n", "-", "a">>
    /\ ~submissions[2].extraction_success
    /\ submissions[3].file_path = <<"v", "a", "n">>

\* C23: in the retry loop a sleep follows a failed attempt that is not the
\* last one and nothing else: 1 after a malformed-JSON failure, 2^k after
\* any other failure at attempt index k (0-based, counted over the
\* attempts of either kind); no sleep follows the final failed attempt or
\* an attempt whose reply decoded.
C23_BackoffSleeps ==
    (g_pc \in {"loop", "returned"}
        /\ grade_path(submission, dry_run) = "live") =>
        /\ Len(sleeps) = attempt
        /\ Len(sleeps) = Len(failures) - (IF Exhausted THEN 1 ELSE 0)
        /\ Exhausted => Len(failures) = max_retries + 1
        /\ \A k \in DOMAIN sleeps :
               sleeps[k] = IF failures[k].kind = "json"
                           THEN 1
                           ELSE 2 ^ (k - 1)

\* C23 witness: four failed attempts, the second one malformed JSON: the
\* waits were 1, 1 and 4, and none followed the last attempt.
C23_Witness ==
    /\ Exhausted
    /\ max_retries = 3
    /\ Len(failures) = 4
    /\ failures[1].kind = "other"
    /\ failures[2].kind = "json"
    /\ failures[3].kind = "other"
    /\ sleeps = <<1, 1, 4>>

\* C23 witness of a reply that decoded at the third attempt: waits 1 and 2.
C23_WitnessDecoded ==
    /\ ParsedObject
    /\ requests = 3
    /\ sleeps = <<1, 2>>

\* C24: a failure while extracting fields from a reply that was received
\* and decoded as JSON is never retried: once a request has returned a
\* decodable body the call has returned and issues no further request, and
\* a body on which the extraction raises yields a flagged zero-score error
\* result with the parse-failure message.
C24_ParseFailureNeverRetried ==
    (g_pc \in {"loop", "returned"}
        /\ grade_path(submission, dry_run) = "live"
        /\ response_data # None) =>
        /\ g_pc = "returned"
        /\ requests = Len(failures) + 1
        /\ \A k \in DOMAIN failures : failures[k].e # FailedToParse
        /\ parse_raises(response_data) =>
               /\ result.flagged_for_review
               /\ result.error.t = "str"
               /\ SubSeq(result.error.v, 1, Len(FailedToParse))
                      = FailedToParse
               /\ Mentions(result.flag_reason, "error")
               /\ result.total_score = Num(0)
               /\ result.raw_response = [t |-> "dict", f |-> <<>>]
        /\ ~parse_raises(response_data) => result.error = None

\* C24 witness: the first reply decoded to an object with a null confidence
\* while a retry was still allowed; the call returned the parse-failure
\* result after that one request.
C24_Witness ==
    /\ g_pc = "returned"
    /\ max_retries = 1
    /\ requests = 1
    /\ failures = <<>>
    /\ response_data.t = "dict"
    /\ response_data.f.confidence = None
    /\ Quotes(result.error.v, FailedToParse)

\* C24 witness of a body that is no JSON object.
C24_WitnessNotAnObject ==
    /\ g_pc = "returned"
    /\ max_retries = 1
    /\ requests = 1
    /\ response_data = List(<<>>)
    /\ Quotes(result.error.v, FailedToParse)

\* C25: the triage of _parse_response goes in a fixed order: a confidence
\* below confidence_threshold flags the result with the low-confidence
\* reason, also when integrity_flag is true; otherwise a true
\* integrity_flag flags it with the integrity reason, which carries the
\* reply's integrity_reason; otherwise it is not flagged and flag_reason
\* is empty.
C25_TriagePriorityOrder ==
    (ParsedObject /\ ~parse_raises(response_data)) =>
        LET c == get(response_data, "confidence", Num(50))
            flag == get(response_data, "integrity_flag", Bool(FALSE))
            reason == get(response_data, "integrity_reason", Str(<<>>))
        IN  IF hundredths(c) < confidence_threshold
            THEN /\ result.flagged_for_review
                 /\ result.flag_reason
                        = <<"Low", "confidence", "score", ":">>
                          \o fmt_2f(hundredths(c))
            ELSE IF truthy(flag)
            THEN /\ result.flagged_for_review
                 /\ result.flag_reason
                        = <<"Academic", "integrity", "concern", ":">>
                          \o reason.v
            ELSE /\ ~result.flagged_for_review
                 /\ result.flag_reason = <<>>

\* C25 witness: confidence 0.50 under the threshold 0.7 with integrity_flag
\* true and a reason given: the low-confidence reason alone.
C25_Witness ==
    /\ ParsedObject
    /\ confidence_threshold = 70
    /\ response_data.f.confidence = Num(50)
    /\ response_data.f.integrity_flag = Bool(TRUE)
    /\ response_data.f.integrity_reason
           = Str(<<"Possible", "plagiarism", "detected">>)
    /\ result.flag_reason = <<"Low", "confidence", "score", ":",
                              "0", ".", "5", "0">>

\* C25 witness of the second branch: the reply's reason in flag_reason.
C25_WitnessIntegrity ==
    /\ ParsedObject
    /\ confidence_threshold = 70
    /\ response_data.f.confidence = Num(70)
    /\ response_data.f.integrity_flag = Bool(TRUE)
    /\ result.flag_reason = <<"Academic", "integrity", "concern", ":",
                              "Possible", "plagiarism", "detected">>

\* The fallback default _parse_response gives each field of the reply.
field_default(field) ==
    CASE field = "total_score" -> Num(0)
      [] field = "max_possible_score" -> Num(100)
      [] field = "percentage" -> Num(0)
      [] field \in {"letter_grade", "feedback", "integrity_reason"} ->
            Str(<<>>)
      [] field \in {"strengths", "improvements", "rubric_scores"} ->
            List(<<>>)
      [] field = "integrity_flag" -> Bool(FALSE)
      [] field = "confidence" -> Num(50)
      [] OTHER -> Str(submission.student_name)

\* C26: _parse_response fills every field the reply lacks with its default
\* (total_score 0, max_possible_score 100, percentage 0, empty lists,
\* integrity_flag false, confidence 0.5, the submission's student_name),
\* copies the fields it has, and applies the triage to the defaulted
\* values: a reply without confidence is no error result and is flagged as
\* low-confidence exactly when confidence_threshold > 0.5.
C26_DefaultsForAbsentFields ==
    (ParsedObject /\ requests > 0 /\ ~parse_raises(response_data)) =>
        /\ \A field \in DOMAIN response_data.f :
               result[field] = IF response_data.f[field] = Absent
                               THEN field_default(field)
                               ELSE response_data.f[field]
        /\ result.error = None
        /\ response_data.f.confidence = Absent =>
               /\ result.confidence = Num(50)
               /\ Mentions(result.flag_reason, "confidence")
                      <=> confidence_threshold > 50
               /\ confidence_threshold > 50 =>
                      /\ result.flagged_for_review
                      /\ result.flag_reason
                             = <<"Low", "confidence", "score", ":",
                                 "0", ".", "5", "0">>
               /\ (confidence_threshold <= 50
                      /\ response_data.f.integrity_flag = Absent) =>
                      ~result.flagged_for_review

\* C26 witness: the empty object {} under the threshold 0.7.
C26_Witness ==
    /\ ParsedObject
    /\ requests > 0
    /\ confidence_threshold = 70
    /\ \A field \in DOMAIN response_data.f :
           response_data.f[field] = Absent
    /\ result.max_possible_score = Num(100)
    /\ result.confidence = Num(50)
    /\ result.student_name = Str(submission.student_name)
    /\ result.flagged_for_review
    /\ result.error = None

\* C26 witness of the threshold 0.5 itself: the default is not below it.
C26_WitnessAtThreshold ==
    /\ ParsedObject
    /\ requests > 0
    /\ confidence_threshold = 50
    /\ response_data.f.confidence = Absent
    /\ ~result.flagged_for_review

\* C27: every error result _create_error_result builds (after the last
\* failed attempt, or on a parse failure) has the zero-score flagged shape
\* of the extraction-failure result: total_score 0, max_possible_score 0,
\* percentage 0, empty letter grade, confidence 0, integrity_flag false,
\* flagged_for_review true, error the message given, student_name the
\* submission's name, and a flag_reason that quotes the error.
C27_ErrorResultShape ==
    (Returned /\ grade_path(submission, dry_run) = "live"
        /\ (response_data = None \/ parse_raises(response_data))) =>
        /\ result.total_score = Num(0)
        /\ result.max_possible_score = Num(0)
        /\ result.percentage = Num(0)
        /\ result.letter_grade = Str(<<>>)
        /\ result.confidence = Num(0)
        /\ result.integrity_flag = Bool(FALSE)
        /\ result.flagged_for_review
        /\ result.student_name = Str(submission.student_name)
        /\ result.error.t = "str"
        /\ result.error.v # <<>>
        /\ result.flag_reason = <<"Grading", "error", ":">> \o result.error.v
        /\ result.error.v
               = (IF response_data # None
                  THEN FailedToParse
                       \o (IF response_data.t = "dict"
                           THEN type_error_text(
                                    get(response_data, "confidence", Num(50)))
                           ELSE attribute_error_text(response_data))
                  ELSE (IF failures[Len(failures)].kind = "json"
                        THEN JsonFailed ELSE ApiFailed)
                       \o failures[Len(failures)].e)
        /\ \A field \in GradingResultFields
                         \ {"student_name", "flag_reason", "error"} :
               result[field] = extraction_failed_result(submission)[field]

\* C27 witness: a reply that names another student and has a null
\* confidence: the error result bears the submission's name.
C27_Witness ==
    /\ Returned
    /\ response_data.t = "dict"
    /\ response_data.f.student_name = Str(<<"M", "a", "l">>)
    /\ response_data.f.confidence = None
    /\ result.student_name = Str(submission.student_name)
    /\ result.max_possible_score = Num(0)
    /\ Mentions(result.flag_reason, "error")

\* C27 witness of retry exhaustion.
C27_WitnessExhausted ==
    /\ Exhausted
    /\ max_retries = 1
    /\ result.max_possible_score = Num(0)
    /\ Quotes(result.flag_reason, failures[2].e)

\* The submission numbered k (batch_start + position) closes its batch.
last_of_batch(k) ==
    \/ (k - batch_start) % batch_size = 0
    \/ k - batch_start = Len(submissions_to_process)

\* C28: in a live run the pause of 0.5 follows every submission but the
\* last of each batch, so a run that grades n submissions in batches of b
\* pauses n - ceil(n / b) times, and a pause never stands next to a delay
\* between batches; a dry run never pauses.
C28_PausesBetweenSubmissionsOfABatch ==
    LET n == Len(submissions_to_process)
    IN  /\ \A p \in steps("pause") :
               /\ ~dry_run
               /\ ~last_of_batch(events[p].k)
               /\ p > 1
               /\ events[p - 1] = [op |-> "audit", k |-> events[p].k]
               /\ p < Len(events) =>
                      events[p + 1] = [op |-> "grade", k |-> events[p].k + 1]
        /\ \A p \in steps("audit") :
               (~dry_run /\ ~last_of_batch(events[p].k) /\ p < Len(events)) =>
                   events[p + 1] = [op |-> "pause", k |-> events[p].k]
        /\ \A p \in steps("batch_delay") :
               /\ p > 1 => events[p - 1].op # "pause"
               /\ p < Len(events) => events[p + 1].op # "pause"
        /\ LoopsDone =>
               Cardinality(steps("pause"))
                   = IF dry_run THEN 0 ELSE n - ceil_div(n, batch_size)

\* C28 witness: a finished live run over three submissions in batches of
\* two and one: one pause, after the first submission, and none around the
\* delay between the batches.
C28_Witness ==
    /\ pc = "done"
    /\ ~dry_run
    /\ Len(submissions_to_process) = 3
    /\ batch_size = 2
    /\ Cardinality(steps("pause")) = 1
    /\ Cardinality(steps("batch_delay")) = 1
    /\ \E p \in steps("pause") :
           /\ events[p - 1] = [op |-> "audit", k |-> batch_start + 1]
           /\ events[p + 1] = [op |-> "grade", k |-> batch_start + 2]

\* C28 witness of a finished dry run over a batch of two: no pause.
C28_WitnessDryRun ==
    /\ pc = "done"
    /\ dry_run
    /\ Len(submissions_to_process) >= 2
    /\ batch_size = 2
    /\ steps("pause") = {}
    /\ Cardinality(steps("audit")) = Len(submissions_to_process)

\* The run is inside the body of the outer loop, at a batch.
AtABatch ==
    pc \in {"grade", "in_grade", "audit", "append"}

\* C29: for every batch size b >= 1 the run splits submissions[offset:]
\* into contiguous batches of exactly b submissions, but for a last one
\* that may be shorter and is not empty; the batches cover every submission
\* exactly once, and the final list of results has one result for each
\* submission, in the order of the submissions.
C29_BatchesPartitionTheSubmissions ==
    LET n == Len(submissions_to_process)
    IN  /\ AtABatch =>
               /\ i = batch_num * batch_size
               /\ i < n
               /\ Len(batch) \in 1..batch_size
               /\ Len(batch) < batch_size => i + Len(batch) = n
               /\ \A k \in DOMAIN batch :
                      batch[k] = submissions_to_process[i + k]
               /\ Len(all_results) = i
               /\ Len(batch_results) \in {j, j + 1}
               /\ pc \in {"in_grade", "audit", "append"} =>
                      /\ j < Len(batch)
                      /\ submission = submissions_to_process[i + j + 1]
                      /\ Len(batch_results) = j
        /\ \A p \in steps("grade") :
               /\ events[p].k \in (batch_start + 1)..(batch_start + n)
               /\ \A q \in steps("grade") :
                      p < q => events[p].k < events[q].k
        /\ LoopsDone =>
               /\ Len(all_results) = n
               /\ Cardinality(steps("grade")) = n
        /\ Len(all_results) <= n
        /\ \A k \in DOMAIN all_results :
               LET s == submissions_to_process[k]
               IN  /\ all_results[k] # None
                   /\ grade_path(s, dry_run) = "extraction_failed" =>
                          all_results[k] = extraction_failed_result(s)
                   /\ (grade_path(s, dry_run) = "dry_run"
                          \/ all_results[k].error # None) =>
                          all_results[k].student_name = Str(s.student_name)
                   /\ all_results[k].error = None =>
                          grade_path(s, dry_run) # "extraction_failed"

\* C29 witness: a finished dry run over three submissions in batches of
\* two and one; the three results bear the three names in order.
C29_Witness ==
    /\ pc = "done"
    /\ dry_run
    /\ batch_size = 2
    /\ batch_num = 2
    /\ Len(submissions_to_process) = 3
    /\ Len(all_results) = 3
    /\ \A k \in 1..3 :
           /\ all_results[k].student_name
                  = Str(submissions_to_process[k].student_name)
           /\ \A l \in 1..3 :
                  l # k => submissions_to_process[l].student_name
                              # submissions_to_process[k].student_name

\* C29 witness of the shorter last batch while it is being graded.
C29_WitnessShortLastBatch ==
    /\ pc = "append"
    /\ batch_size = 2
    /\ batch_num = 1
    /\ Len(submissions_to_process) = 3
    /\ Len(batch) = 1
    /\ batch[1] = submissions_to_process[3]
    /\ Len(all_results) = 2

\* The k-th result came from the extraction-failure return, from the last
\* failed attempt or from a parse failure.
failure_result(k) ==
    \/ grade_path(submissions_to_process[k], dry_run) = "extraction_failed"
    \/ /\ Len(all_results[k].flag_reason) >= 3
       /\ SubSeq(all_results[k].flag_reason, 1, 3)
              = <<"Grading", "error", ":">>

\* C30: in the summary of the run every result of the extraction-failure
\* return, of retry exhaustion and of a parse failure is counted under
\* errors and never under successful, and is left out of the mean
\* percentage, whatever its error message says (an empty extraction error
\* message included); the mean is computed only when at least one result
\* is successful.
C30_FailuresCountedAsErrors ==
    pc = "done" =>
        LET failed == {k \in DOMAIN all_results : failure_result(k)}
            passed == DOMAIN all_results \ failed
            kept == [k \in 1..Cardinality(passed) |->
                        all_results[CHOOSE l \in passed :
                            Cardinality({q \in passed : q <= l}) = k]]
        IN  /\ reports.summary.errors = Cardinality(failed)
            /\ reports.summary.successful = Cardinality(passed)
            /\ reports.summary.avg_score.t = "fraction" <=> passed # {}
            /\ reports.summary.avg_score.t = "fraction" =>
                   /\ reports.summary.avg_score.len = Cardinality(passed)
                   /\ reports.summary.avg_score.sum = sum_percentage(kept)

\* C30, the part the summary keeps: a failure whose error message is not
\* empty is counted under errors, and the mean is computed exactly when
\* some result has no error or an empty one.
C30_NamedFailuresCountedAsErrors ==
    pc = "done" =>
        LET named == {k \in DOMAIN all_results :
                         failure_result(k) /\ all_results[k].error.v # <<>>}
        IN  /\ reports.summary.errors = Cardinality(named)
            /\ reports.summary.successful
                   = Len(all_results) - Cardinality(named)
            /\ reports.summary.avg_score.t = "fraction"
                   <=> Cardinality(named) < Len(all_results)

\* A finished run whose only submission could not be opened, the exception
\* having an empty text: counted as successful, mean 0 / 1.
C30_EmptyMessageCountedSuccessful ==
    /\ pc = "done"
    /\ Len(all_results) = 1
    /\ failure_result(1)
    /\ all_results[1].error = Str(<<>>)
    /\ reports.summary.errors = 0
    /\ reports.summary.successful = 1
    /\ reports.summary.avg_score = [t |-> "fraction", sum |-> 0, len |-> 1]

\* C31: every GradingResult carries the student_name of the Submission it
\* was produced from: at each position the student_name of the result, of
\* the grades row and of the audit record is the student_name of the
\* processed submission at that position, whatever the reply contains.
C31_ResultsBearTheSubmissionsName ==
    /\ \A k \in DOMAIN all_results :
           all_results[k].student_name
               = Str(submissions_to_process[k].student_name)
    /\ \A k \in DOMAIN audit_log :
           audit_log[k].student_id
               = Str(submissions_to_process[k].student_name)
    /\ reports # None =>
           \A k \in DOMAIN reports.grades :
               reports.grades[k].student_name
                   = Str(submissions_to_process[k].student_name)

\* C31, the part the code keeps: the name is the submission's in every
\* result of a dry run, of an extraction failure and of an error, and in
\* every result of a reply that has no student_name; the audit record and
\* the grades row bear the name of the result.
C31_NameIsTheSubmissionsUnlessTheReplyNamesOne ==
    /\ \A k \in DOMAIN all_results :
           \/ all_results[k].student_name
                  = Str(submissions_to_process[k].student_name)
           \/ /\ grade_path(submissions_to_process[k], dry_run) = "live"
              /\ all_results[k].error = None
              /\ all_results[k].raw_response.t = "dict"
              /\ all_results[k].raw_response.f.student_name
                     = all_results[k].student_name
    /\ \A k \in DOMAIN all_results :
           k \in DOMAIN audit_log
               /\ audit_log[k].student_id = all_results[k].student_name
    /\ reports # None =>
           \A k \in DOMAIN all_results :
               reports.grades[k].student_name = all_results[k].student_name

\* A finished live run over jones.pdf whose reply names another student:
\* the result, the audit record and the grades row all say "Mal".
C31_ReplyRenamesTheStudent ==
    /\ pc = "done"
    /\ Len(all_results) = 1
    /\ submissions_to_process[1].student_name = <<"J", "o", "n", "e", "s">>
    /\ all_results[1].student_name = Str(<<"M", "a", "l">>)
    /\ audit_log[1].student_id = Str(<<"M", "a", "l">>)
    /\ reports.grades[1].student_name = Str(<<"M", "a", "l">>)

\* run_grading_pipeline is about to enter its loop over the batches.
AtTheLoops ==
    pc = "batch" /\ batch_num = 0 /\ i = 0 /\ all_results = <<>>

\* The loops have run to their end with every submission of
\* submissions[offset:] graded and logged.
Completed ==
    /\ LoopsDone
    /\ Len(all_results) = Len(submissions_to_process)
    /\ Len(audit_log) = Len(submissions_to_process)
    /\ Cardinality(steps("grade")) = Len(submissions_to_process)

\* The run has ended: by returning, by sys.exit(1) or by an exception that
\* nothing catches.
Ended ==
    pc \in {"done", "exit_1", "raised"}

\* C32: for a finite list of submissions, a batch size b >= 1 and
\* max_retries >= 0, if every model request returns or raises, a run that
\* has come to its loops reaches the writing of the reports with every
\* submission of submissions[offset:] graded and logged, whatever the
\* client does.
C32_RunReachesCompletion ==
    (AtTheLoops /\ max_retries >= 0) ~> Completed

\* C32, the part the code keeps: no behaviour of the client makes the retry
\* loop or the loop over the batches run forever; every run ends.
C32_EveryRunEnds ==
    <>Ended

\* C32, the part the code keeps: a run that has come to its loops reaches
\* the writing of the reports unless an exception escapes on the way.
C32_CompletesUnlessAnExceptionEscapes ==
    AtTheLoops ~> (Completed \/ pc = "raised")

\* A live run with max_retries = 0 that never reaches its reports: the
\* reply for the first of two submissions makes print_progress raise, and
\* the second is never graded.
C32_AbortedBeforeTheLastSubmission ==
    /\ pc = "raised"
    /\ max_retries = 0
    /\ uncaught = Str(<<"print_progress">>)
    /\ Len(submissions_to_process) = 2
    /\ Cardinality(steps("grade")) = 1
    /\ audit_log = <<>>

====
